---- MODULE Spec2Model ----
(***************************************************************************)
(* Model of the Convivial Decision Flow widget (convivial_decision_flow.js, *)
(* first class) and of the legacy Decision Tree widget (unnamed/part_000).  *)
(* One handler of the code is one action; the DOM is the display map of the *)
(* elements the handlers touch; browser storage is the JSON record kept     *)
(* under the flow's namespace key.                                          *)
(***************************************************************************)
EXTENDS Integers, Sequences, FiniteSets, TLC

VARIABLES
  steps,        \* config.steps: the page's .step ids in document order
  histShow,     \* markup: the page has an element [data-df-show="history"]
  storageData,  \* this.storageData: the in-memory record
  store,        \* storage item "convivial-decision-flow.<id>": <<>> or <<json>>
  display,      \* style.display of every element the engine toggles
  selected,     \* the step whose answer carries data-selected="true"
  last,         \* how the last handler ended, and the visited step it led to
  phase, depth, \* position in a run "n forward transitions, then n times Back"
  fx, fres,     \* an authored filter expression and what process made of it
  dt,           \* a page run by the legacy DecisionTree engine
  cmp,          \* a call of functions.filter.compare and what it returned
  functions,    \* this.functions: the registered (type, name) pairs
  call,         \* the last defineFunction / executeFunction call and its end
  page,         \* markup and browser the instance was constructed on
  flows         \* a page with two containers: its storage and its instances

allVars == <<steps, histShow, storageData, store, display, selected, last,
             phase, depth, fx, fres, dt, cmp, functions, call, page, flows>>

\* what the navigation handlers leave alone
apiVars == <<cmp, functions, call, page, flows>>

-----------------------------------------------------------------------------
(* Bounds *)

NumSteps == 3     \* step elements of the page as first authored
MaxCrit  == 3     \* criteria of a generated filter expression
MaxHistory == 4   \* entries of a legacy history (it grows with every answer)

-----------------------------------------------------------------------------
(* JavaScript values: undefined, null, booleans, numbers (NaN apart),     *)
(* strings                                                                 *)

JUndef   == [k |-> "undef", s |-> "", n |-> 0, b |-> FALSE]
JNull    == [k |-> "null",  s |-> "", n |-> 0, b |-> FALSE]
JNaN     == [k |-> "nan",   s |-> "", n |-> 0, b |-> FALSE]
JBool(x) == [k |-> "bool",  s |-> "", n |-> 0, b |-> x]
JNum(x)  == [k |-> "num",   s |-> "", n |-> x, b |-> FALSE]
JStr(x)  == [k |-> "str",   s |-> x,  n |-> 0, b |-> FALSE]

\* The strings whose numeric value is their decimal reading.
NumeralValue ==
  [x \in {"15", "18", "19", "20", "9"} |->
     CASE x = "15" -> 15 [] x = "18" -> 18 [] x = "19" -> 19
       [] x = "20" -> 20 [] x = "9" -> 9]

\* Every string of the model, in code-unit order (the order <, > use on
\* two strings).
Lexicon == <<"", "15", "18", "19", "20", "9", "Age", "[object HTMLDivElement]",
             "abc", "age", "eq", "gte", "japanese", "nationality", "other">>

LexRank(x) == CHOOSE i \in 1..Len(Lexicon) : Lexicon[i] = x

\* Number(v)
ToNumber(v) ==
  CASE v.k = "undef" -> JNaN
    [] v.k = "null"  -> JNum(0)
    [] v.k = "nan"   -> JNaN
    [] v.k = "bool"  -> JNum(IF v.b THEN 1 ELSE 0)
    [] v.k = "num"   -> v
    [] v.k = "str"   -> IF v.s = "" THEN JNum(0)
                        ELSE IF v.s \in DOMAIN NumeralValue
                             THEN JNum(NumeralValue[v.s]) ELSE JNaN

\* isNaN(v)
IsNaN(v) == ToNumber(v).k = "nan"

\* parseFloat(v): parses String(v); "", "true", "null", "undefined" have no
\* number
ParseFloat(v) ==
  CASE v.k = "num" -> v
    [] v.k = "str" -> IF v.s \in DOMAIN NumeralValue
                      THEN JNum(NumeralValue[v.s]) ELSE JNaN
    [] OTHER       -> JNaN

\* the operand is left as it is
CoerceNever(v) == v

\* if (!isNaN(x)) x = parseFloat(x)
Coerce(v) == IF ~IsNaN(v) THEN ParseFloat(v) ELSE v

\* x < y on numbers, false when either is NaN
NumLess(x, y) == x.k = "num" /\ y.k = "num" /\ x.n < y.n

\* x <= y on numbers, false when either is NaN
NumLessEq(x, y) == x.k = "num" /\ y.k = "num" /\ x.n <= y.n

\* x == y on numbers, false when either is NaN
NumEq(x, y) == x.k = "num" /\ y.k = "num" /\ x.n = y.n

\* a < b of JavaScript (abstract relational comparison)
JsLess(a, b) ==
  IF a.k = "str" /\ b.k = "str"
  THEN LexRank(a.s) < LexRank(b.s)
  ELSE NumLess(ToNumber(a), ToNumber(b))

\* a <= b of JavaScript
JsLessEq(a, b) ==
  IF a.k = "str" /\ b.k = "str"
  THEN LexRank(a.s) <= LexRank(b.s)
  ELSE NumLessEq(ToNumber(a), ToNumber(b))

\* a == b of JavaScript (loose equality)
JsLooseEq(a, b) ==
  CASE a.k \in {"undef", "null"} \/ b.k \in {"undef", "null"} ->
         a.k \in {"undef", "null"} /\ b.k \in {"undef", "null"}
    [] a.k = "str" /\ b.k = "str"     -> a.s = b.s
    [] OTHER                          -> NumEq(ToNumber(a), ToNumber(b))

\* a === '' of JavaScript
JsIsEmptyString(a) == a.k = "str" /\ a.s = ""

\* the switch of functions.filter.compare, on the coerced operands
compareSwitch(v, operator, c) ==
  CASE operator = JStr("gt")    -> JsLess(c, v)
    [] operator = JStr("gte")   -> JsLessEq(c, v)
    [] operator = JStr("lt")    -> JsLess(v, c)
    [] operator = JStr("lte")   -> JsLessEq(v, c)
    [] operator = JStr("eq")    -> JsLooseEq(v, c)
    [] operator = JStr("empty") -> JsIsEmptyString(v)
    [] OTHER                    -> FALSE

\* functions.filter.compare(variableValue, operator, comparator)
compare(variableValue, operator, comparator) ==
  compareSwitch(Coerce(variableValue), operator, Coerce(comparator))

-----------------------------------------------------------------------------
(* Strings that are split: a string is the sequence of its tokens, a token  *)
(* being one separator character (",", "+", "!", "_") or a maximal run of   *)
(* other characters.                                                        *)

RECURSIVE Cat(_)
\* the string a token sequence spells
Cat(toks) == IF toks = <<>> THEN "" ELSE Head(toks) \o Cat(Tail(toks))

\* the place of the first sep in str
FirstAt(str, sep) ==
  CHOOSE j \in 1..Len(str) : str[j] = sep /\ \A h \in 1..(j - 1) : str[h] # sep

RECURSIVE Split(_, _)
\* the pieces of str before and after place i, the latter split again
SplitAt(str, sep, i) ==
  <<SubSeq(str, 1, i - 1)>> \o Split(SubSeq(str, i + 1, Len(str)), sep)

\* String.prototype.split(sep) for a one-character separator
Split(str, sep) ==
  IF \A i \in 1..Len(str) : str[i] # sep
  THEN <<str>>
  ELSE SplitAt(str, sep, FirstAt(str, sep))

\* String.prototype.startsWith('!')
StartsWithBang(str) == str # <<>> /\ Head(str) = "!"

\* an attribute of an element: absent (getAttribute gives null) or a string
NoAttr    == [has |-> FALSE, val |-> <<>>]
Attr(str) == [has |-> TRUE, val |-> str]

\* the i-th positional argument of a call made with the spread ...args
Arg(args, i) == IF i <= Len(args) THEN JStr(args[i]) ELSE JUndef

\* this.storageData.vars[key]
VarValue(vs, key) ==
  IF key.k = "str" /\ key.s \in DOMAIN vs THEN JStr(vs[key.s]) ELSE JUndef

\* this.storageData.history.includes(stepId)
Includes(hist, x) == \E i \in 1..Len(hist) : hist[i] = x

\* what an element object is to the comparison operators
ElementValue == JStr("[object HTMLDivElement]")

\* functions.vars(key, operation, value)
varsFn(vs, args) == compare(VarValue(vs, Arg(args, 1)), Arg(args, 2), Arg(args, 3))

\* const isVisited = this.storageData.history.includes(stepId)
isVisited(hist, stepId) == JBool(stepId.k = "str" /\ Includes(hist, stepId.s))

\* functions.visited(stepId, operation, value)
visited(hist, args) ==
  compare(isVisited(hist, Arg(args, 1)), Arg(args, 2), Arg(args, 3))

\* the outcome of a call: it returns true, returns false, or raises
Ret(b) == IF b THEN "true" ELSE "false"
Neg(r) == CASE r = "true" -> "false" [] r = "false" -> "true" [] OTHER -> r

\* filter.evaluate(el, args[0]) reached through a criterion "evaluate_...":
\* without an argument undefined.split raises; "evaluate" and "process"
\* call on without end; every other single name evaluates false
evaluateNested(args) ==
  IF Len(args) = 0 \/ args[1] \in {"evaluate", "process"} THEN "throw" ELSE "false"

\* the dispatch of functions.filter.evaluate: this.functions.filter holds
\* compare, evaluate and process, which are looked up before var/visited
dispatch(vs, hist, functionName, args) ==
  CASE functionName = "compare"  ->
         Ret(compare(ElementValue, Arg(args, 1), Arg(args, 2)))
    [] functionName = "evaluate" -> evaluateNested(args)
    [] functionName = "process"  -> "throw"
    [] functionName = "var"      -> Ret(varsFn(vs, args))
    [] functionName = "visited"  -> Ret(visited(hist, args))
    [] OTHER                     -> "false"

\* parts.slice(1)
Rest(parts) == [i \in 1..(Len(parts) - 1) |-> Cat(parts[i + 1])]

\* parts[0] names the evaluator, the other parts are its arguments
evaluateParts(vs, hist, parts) == dispatch(vs, hist, Cat(parts[1]), Rest(parts))

\* functions.filter.evaluate(el, criteria)
evaluate(vs, hist, criteria) == evaluateParts(vs, hist, Split(criteria, "_"))

\* criteria.startsWith('!') ? !evaluate(el, criteria.slice(1))
\*                          : evaluate(el, criteria)
evaluateSigned(vs, hist, criteria) ==
  IF StartsWithBang(criteria)
  THEN Neg(evaluate(vs, hist, Tail(criteria)))
  ELSE evaluate(vs, hist, criteria)

RECURSIVE every(_, _, _)
\* every() goes on to the next conjunct only after a true one
everyNext(r, vs, hist, rest) == IF r = "true" THEN every(vs, hist, rest) ELSE r

\* Array.prototype.every over the conjuncts, left to right
every(vs, hist, conjs) ==
  IF conjs = <<>> THEN "true"
  ELSE everyNext(evaluateSigned(vs, hist, Head(conjs)), vs, hist, Tail(conjs))

\* a some() that stops at its first alternative
someStop(r, vs, hist, rest) == r

RECURSIVE some(_, _, _)
\* some() goes on to the next alternative only after a false one
someNext(r, vs, hist, rest) == IF r = "false" THEN some(vs, hist, rest) ELSE r

\* Array.prototype.some over the alternatives, left to right
some(vs, hist, alts) ==
  IF alts = <<>> THEN "false"
  ELSE someNext(every(vs, hist, Split(Head(alts), "+")), vs, hist, Tail(alts))

\* if (!filters) return true; return filters.split(',').some(...)
processFilters(vs, hist, filters) ==
  IF ~filters.has \/ filters.val = <<>> THEN "true"
  ELSE some(vs, hist, Split(filters.val, ","))

\* functions.filter.process(el): filters = el.getAttribute('data-dt-filter')
process(vs, hist, el) == processFilters(vs, hist, el.dtFilter)
-----------------------------------------------------------------------------
(* The page *)

\* the id of the i-th authored step element
StepId(i) == "step-" \o ToString(i)

\* the step list of the page as first authored
PageSteps == [i \in 1..NumSteps |-> StepId(i)]

\* the page with its first two steps exchanged
SwappedSteps ==
  [i \in 1..NumSteps |-> IF i = 1 THEN StepId(2)
                         ELSE IF i = 2 THEN StepId(1) ELSE StepId(i)]

\* the step lists the page has over time: as authored, with its first two
\* steps exchanged, and with its last step removed
StepLists == {PageSteps, SwappedSteps, SubSeq(PageSteps, 1, NumSteps - 1)}

\* an id no element of the page ever carries
Gone == "gone"

\* the ids an answer's href or a form's action names
Targets == {StepId(i) : i \in 1..NumSteps} \cup {Gone}

\* document.querySelector('#' + id + ' #' + step) finds an element
StepExists(stepList, step) == \E i \in 1..Len(stepList) : stepList[i] = step

\* a step without answer content (the last authored step)
IsTerminal(step) == step = StepId(NumSteps)

\* the steps authored with the attribute data-show-summary: step-2, which
\* has answers
SummarySteps == {StepId(2)}

\* the filter elements in document order
FilterOrder == <<"f_visited", "f_notvisited", "f_adult", "f_df">>

\* the elements carrying a filter attribute; "f_df" carries it under the
\* name the README uses
FilterEls ==
  [e \in {"f_visited", "f_notvisited", "f_adult", "f_df"} |->
     CASE e = "f_visited" ->
            [dtFilter |-> Attr(<<"visited", "_", StepId(2)>>), dfFilter |-> NoAttr]
       [] e = "f_notvisited" ->
            [dtFilter |-> Attr(<<"!", "visited", "_", StepId(2)>>), dfFilter |-> NoAttr]
       [] e = "f_adult" ->
            [dtFilter |-> Attr(<<"var", "_", "age", "_", "gte", "_", "18">>),
             dfFilter |-> NoAttr]
       [] e = "f_df" ->
            [dtFilter |-> NoAttr,
             dfFilter |-> Attr(<<"var", "_", "age", "_", "gte", "_", "18">>)]]

\* every element whose style.display the engine may set; "histEl" is the
\* element [data-df-show="history"], a child of the container;
\* "dt-initialized" is that class in the container's classList
Elements ==
  Targets \cup DOMAIN FilterEls
    \cup {"container", "footer", "summary", "histEl", "dt-initialized"}

\* the analytics globals of a page: whether gtag is a function; whether
\* drupalSettings is not declared, has no google_analytics, or has one; and
\* whether ga is not a function, is one without tracker, or has a tracker
NoAnalytics == [gtag |-> FALSE, settings |-> "undeclared", ga |-> "absent"]

\* gtag is configured by the site's own snippet, drupalSettings is missing
GtagAlone == [gtag |-> TRUE, settings |-> "undeclared", ga |-> "absent"]

\* the page of the README example, whose forms carry the class the engine
\* binds: working storage, a footer with both buttons, no analytics globals
BoundPage ==
  [storage |-> "ok", formClass |-> "dt-form", footer |-> "buttons",
   analytics |-> NoAnalytics]

\* the DOM of a freshly loaded page: every display as authored; the summary
\* and the class dt-initialized are not authored, the footer need not be
FreshDisplay(pg) ==
  [e \in Elements |->
     IF e \in {"summary", "dt-initialized"} \/ (e = "footer" /\ pg.footer = "none")
     THEN "absent" ELSE ""]

\* the form fields of the page: name -> the text of its <label for>, "" if none
FieldLabel == [f \in {"age", "nationality"} |-> IF f = "age" THEN "Age" ELSE ""]

\* the fields of the form authored in a step: step-1 asks the age, every
\* other step the nationality
FormOf(step) == IF step = StepId(1) THEN {"age"} ELSE {"nationality"}

\* the values a visitor submits for a field
FieldValues(f) == IF f = "age" THEN {"20"} ELSE {"japanese"}

\* the element is rendered: it exists and its own display is not none
Displayed(d, e) == d[e] \notin {"none", "absent"}

-----------------------------------------------------------------------------
(* Storage record *)

NoVars == [x \in {} |-> ""]

\* the record _loadStorage creates when the namespace holds nothing
FreshRecord(stepList) ==
  [active |-> stepList[1], history |-> <<stepList[1]>>, vars |-> NoVars,
   answers |-> {}, functions |-> {}]

\* JSON.stringify(this.storageData): ids, variable values and answer texts
\* are strings, written out field by field
Stringify(rec) ==
  [active  |-> rec.active,
   history |-> [i \in 1..Len(rec.history) |-> rec.history[i]],
   vars    |-> [x \in DOMAIN rec.vars |-> rec.vars[x]],
   answers |-> {x \in rec.answers : TRUE},
   functions |-> {x \in rec.functions : TRUE}]

\* JSON.parse(text)
Parse(json) ==
  [active  |-> json.active,
   history |-> [i \in 1..Len(json.history) |-> json.history[i]],
   vars    |-> [x \in DOMAIN json.vars |-> json.vars[x]],
   answers |-> {x \in json.answers : TRUE},
   functions |-> {x \in json.functions : TRUE}]

-----------------------------------------------------------------------------
(* The names and the built-in entries of the function registry *)

\* a name as the regular expression reads it: character by character
Spelling ==
  [n \in {"valid_name$", "1bad-name", "history", "missingName"} |->
     CASE n = "valid_name$" -> <<"v", "a", "l", "i", "d", "_", "n", "a", "m", "e", "$">>
       [] n = "1bad-name"   -> <<"1", "b", "a", "d", "-", "n", "a", "m", "e">>
       [] n = "history"     -> <<"h", "i", "s", "t", "o", "r", "y">>
       [] n = "missingName" -> <<"m", "i", "s", "s", "i", "n", "g", "N", "a", "m", "e">>]

\* [a-zA-Z_$]
IdStart ==
  {"a", "b", "d", "e", "g", "h", "i", "l", "m", "n", "o", "r", "s", "t", "v", "y",
   "N", "_", "$"}

\* /^[a-zA-Z_$][0-9a-zA-Z_$]*$/.test(name)
validName(name) ==
  /\ Len(Spelling[name]) >= 1
  /\ Spelling[name][1] \in IdStart
  /\ \A i \in 2..Len(Spelling[name]) : Spelling[name][i] \in IdStart \cup {"1"}

\* this.functions after _defineDefaultFunctions(): the show and filter
\* buckets with the built-in entries
DefaultFunctions ==
  [f \in {<<"show", "history">>, <<"show", "submission">>, <<"show", "summary">>,
          <<"filter", "compare">>, <<"filter", "evaluate">>, <<"filter", "process">>}
     |-> "builtin"]

-----------------------------------------------------------------------------
(* Handlers.  A handler maps the world before it to the world after it;     *)
(* threw tells that it raised, and the world is then the one at the raise.  *)

\* fns is this.functions; ran collects the registry entries a handler called,
\* jar the cookies it set
World(sd, st, d, sel) ==
  [sd |-> sd, store |-> st, disp |-> d, sel |-> sel, threw |-> FALSE,
   fns |-> DefaultFunctions, ran |-> {}, jar |-> <<>>]

\* this.functions[type][name] is resolved and called
Ran(w, type, name) ==
  [w EXCEPT !.ran = @ \cup {<<type, name, w.fns[<<type, name>>]>>}]

Raise(w) == [w EXCEPT !.threw = TRUE]

\* runs the rest of a handler unless an earlier call raised
Unless(w, rest) == IF w.threw THEN w ELSE rest

\* hide(elem): sets display none when the element exists
hide(w, e, exists) == IF exists THEN [w EXCEPT !.disp[e] = "none"] ELSE w

\* show(elem): sets display revert when the element exists; what the show
\* hooks inside the element raise is caught in show
show(w, e, exists) == IF exists THEN [w EXCEPT !.disp[e] = "revert"] ELSE w

\* a save that writes nothing
saveNothing(w) == w

\* _saveStorage()
saveStorage(w) == [w EXCEPT !.store = <<Stringify(w.sd)>>]

\* toggleFooter(): the footer is created when missing, then shown iff
\* history has more than one entry
toggleFooter(w) ==
  IF Len(w.sd.history) > 1 THEN show(w, "footer", TRUE) ELSE hide(w, "footer", TRUE)

\* _cleanHTML(): removes the style attribute of the summary, if there is one
cleanHTML(w) == [w EXCEPT !.disp["summary"] = IF @ = "absent" THEN @ ELSE ""]

\* the .step__answer of the active step has content
furtherQuestions(stepList, w) ==
  StepExists(stepList, w.sd.active) /\ ~IsTerminal(w.sd.active)

\* functions.show.summary: the summary is revealed when the active step has
\* no answer content
showSummary(stepList, w) ==
  IF furtherQuestions(stepList, w) THEN cleanHTML(w)
  ELSE show(cleanHTML(w), "summary", TRUE)

\* functions.show.history(context, el): raises on a history entry whose
\* step is not in the page
showHistory(stepList, w) ==
  IF Len(w.sd.history) > 1
  THEN IF \E i \in 1..Len(w.sd.history) : ~StepExists(stepList, w.sd.history[i])
       THEN Raise(w)
       ELSE [w EXCEPT !.disp["histEl"] = "block"]
  ELSE w

\* the dl functions.show.history builds: a dt per history entry, and a dd
\* after it when storageData.answers holds a text for that step
historyList(w) ==
  [i \in 1..Len(w.sd.history) |->
     [dt |-> w.sd.history[i], dd |-> w.sd.history[i] \in w.sd.answers]]

\* a summary hook bound to the built-in when the instance was constructed
summaryHookBound(stepList, w) ==
  showSummary(stepList, [w EXCEPT !.ran = @ \cup {<<"show", "summary", "builtin">>}])

\* this.functions.show.summary(this): the entry the registry holds now
summaryHook(stepList, w) ==
  IF w.fns[<<"show", "summary">>] = "builtin"
  THEN showSummary(stepList, Ran(w, "show", "summary"))
  ELSE Ran(w, "show", "summary")

\* defineFunction(type, name, fn): the registry after the call; a raise
\* leaves it as it was
defineFunction(fns, type, name, fn) ==
  IF fn # "host" THEN fns
  ELSE [f \in DOMAIN fns \cup {<<type, name>>} |->
          IF f = <<type, name>> THEN fn ELSE fns[f]]

\* how defineFunction ends
defineEnd(fn) == IF fn # "host" THEN "raised" ELSE "stored"

\* this.functions[type][name](this, el, ...args): the built-in show
\* functions act on the page, a host function on nothing the model holds
invoke(fns, stepList, w, type, name) ==
  IF fns[<<type, name>>] = "builtin" /\ name = "history"
  THEN showHistory(stepList, [w EXCEPT !.ran = @ \cup {<<type, name, fns[<<type, name>>]>>}])
  ELSE [w EXCEPT !.ran = @ \cup {<<type, name, fns[<<type, name>>]>>}]

invoked(w) == [w |-> w, end |-> IF w.threw THEN "raised" ELSE "invoked"]

\* an executeFunction that raises on what is not registered
executeFunctionOrRaise(fns, stepList, w, type, name) ==
  IF <<type, name>> \notin DOMAIN fns \/ ~validName(name)
  THEN [w |-> Raise(w), end |-> "raised"]
  ELSE invoked(invoke(fns, stepList, w, type, name))

\* the executeFunction of the revision that keeps function text in the
\* record: a name without a callable is rebuilt from storageData.functions
executeFunctionStored(fns, stepList, w, type, name) ==
  IF <<type, name>> \in DOMAIN fns THEN invoked(invoke(fns, stepList, w, type, name))
  ELSE IF name \notin w.sd.functions THEN [w |-> Raise(w), end |-> "raised"]
  ELSE invoked([w EXCEPT !.ran = @ \cup {<<type, name, "stored">>}])

\* executeFunction(type, name, el): the world after the call and how the
\* call ended
executeFunction(fns, stepList, w, type, name) ==
  IF <<type, name>> \notin DOMAIN fns THEN [w |-> w, end |-> "skipped"]
  ELSE IF ~validName(name) THEN [w |-> Raise(w), end |-> "raised"]
  ELSE invoked(invoke(fns, stepList, w, type, name))

\* executeFunction('show', 'history', historyElement) when the page has one
runHistoryHook(stepList, hasHist, w) ==
  IF hasHist THEN executeFunction(w.fns, stepList, w, "show", "history").w ELSE w

\* this.functions.filter.process(element): the entry the registry holds now;
\* a host function here lets every element through
processHook(w, el) ==
  IF w.fns[<<"filter", "process">>] = "builtin"
  THEN process(w.sd.vars, w.sd.history, el)
  ELSE "true"

\* if (process(element)) show(element) else hide(element)
filterOne(w, e, r) ==
  CASE r = "throw" -> Raise(w)
    [] r = "true"  -> show(w, e, TRUE)
    [] OTHER       -> hide(w, e, TRUE)

\* querySelectorAll('#' + id + ' [data-dt-filter]'): the elements carrying
\* the attribute, in document order
Filterable(els, order) ==
  [i \in 1..Len(SelectSeq(order, LAMBDA e : els[e].dtFilter.has)) |->
     [id |-> SelectSeq(order, LAMBDA e : els[e].dtFilter.has)[i],
      el |-> els[SelectSeq(order, LAMBDA e : els[e].dtFilter.has)[i]]]]

RECURSIVE filterFrom(_, _)
filterNext(w, els) ==
  filterFrom(filterOne(Ran(w, "filter", "process"), Head(els).id,
                       processHook(w, Head(els).el)),
             Tail(els))

\* forEach: a raise ends the pass at the element it came from
filterFrom(w, els) ==
  IF els = <<>> \/ w.threw THEN w ELSE filterNext(w, els)

filter(w) == filterFrom(w, Filterable(FilterEls, FilterOrder))

\* this.storageData.answers[active] = the selected answer's text
recordAnswer(w) ==
  IF w.sel = <<w.sd.active>> THEN [w EXCEPT !.sd.answers = @ \cup {w.sd.active}]
  ELSE w

\* show(nextStep) with the active step left as it is
moveToKeepingActive(stepList, w, nextStep) ==
  show(w, nextStep, StepExists(stepList, nextStep))

\* hide(active); show(nextStep)
moveTo(stepList, w, nextStep) ==
  show(hide(w, w.sd.active, TRUE), nextStep, StepExists(stepList, nextStep))

\* active = nextStep; history.push(active) whatever history holds
pushAlways(w, nextStep) ==
  [w EXCEPT !.sd.active = nextStep, !.sd.history = Append(@, nextStep)]

\* active = nextStep; history.push(active) unless history includes it
pushHistory(w, nextStep) ==
  [w EXCEPT !.sd.active = nextStep,
            !.sd.history = IF Includes(@, nextStep) THEN @ ELSE Append(@, nextStep)]

\* the data-cookie attribute of the steps that carry one
DataCookie ==
  [s \in {StepId(1), StepId(2)} |->
     IF s = StepId(1) THEN <<"start", "=", "1">>
     ELSE <<"outcome", "=", "a", "=", "b">>]

\* encodeURIComponent of a text of letters, digits and '='
encodeURIComponent(str) ==
  Cat([i \in 1..Len(str) |-> IF str[i] = "=" THEN "%3D" ELSE str[i]])

\* cookie(name, value, days): document.cookie = name=value; expires; ...
\* saved tells that the stored item is the record at that moment
cookie(w, name, value, days) ==
  [w EXCEPT !.jar = Append(@, [name |-> name, value |-> value, days |-> days,
                               saved |-> w.store = <<Stringify(w.sd)>>])]

\* const [name, value] = stepOutcome.split('='): the first two pieces
cookieOf(w, parts) ==
  cookie(w, encodeURIComponent(parts[1]),
         IF Len(parts) >= 2 THEN encodeURIComponent(parts[2]) ELSE "undefined", 7)

\* trackAttribute(id)
trackAttribute(stepList, w) ==
  IF StepExists(stepList, w.sd.active) /\ w.sd.active \in DOMAIN DataCookie
  THEN cookieOf(w, Split(DataCookie[w.sd.active], "="))
  ELSE w

toggleFooterUnlessRaised(w) == Unless(w, toggleFooter(w))

\* the end of trackAnswer: summary, history hook, footer
afterSave(stepList, hasHist, w) ==
  toggleFooterUnlessRaised(runHistoryHook(stepList, hasHist, summaryHook(stepList, w)))

\* trackAnswer(nextStep, datakey)
trackAnswer(stepList, hasHist, w, nextStep) ==
  IF ~StepExists(stepList, w.sd.active)
  THEN Raise(w)       \* activeStepElement is null
  ELSE afterSave(stepList, hasHist, trackAttribute(stepList,
         saveStorage(pushHistory(moveTo(stepList, recordAnswer(w), nextStep), nextStep))))

\* const previousStep = history[history.length - 2]
previousStep(w) == w.sd.history[Len(w.sd.history) - 1]

\* active = previousStep with history left as it is
popNothing(w) == [w EXCEPT !.sd.active = previousStep(w)]

\* active = previousStep; history.pop()
popHistory(w) ==
  [w EXCEPT !.sd.active = previousStep(w),
            !.sd.history = SubSeq(@, 1, Len(@) - 1)]

\* trackBackButton()
trackBackButton(stepList, w) ==
  IF Len(w.sd.history) <= 1 THEN w
  ELSE toggleFooter(trackAttribute(stepList, saveStorage(popHistory(cleanHTML(
         show(hide(w, w.sd.active, StepExists(stepList, w.sd.active)),
              previousStep(w), StepExists(stepList, previousStep(w))))))))

\* active = first_step; history = [first_step] with vars left as they are
resetKeepingVars(stepList, w) ==
  [w EXCEPT !.sd.active = stepList[1], !.sd.history = <<stepList[1]>>]

\* active = first_step; history = [first_step]; vars = {}
resetRecord(stepList, w) ==
  [w EXCEPT !.sd.active = stepList[1], !.sd.history = <<stepList[1]>>,
            !.sd.vars = NoVars]

\* trackRestartButton()
trackRestartButton(stepList, w) ==
  cleanHTML(toggleFooter(trackAttribute(stepList, saveStorage(resetRecord(stepList,
    show(hide(w, w.sd.active, StepExists(stepList, w.sd.active)),
         stepList[1], TRUE))))))

\* the variables functions.form collects from the submitted form
Collected(field, value) ==
  IF FieldLabel[field] # ""
  THEN [x \in {field, field \o "_label"} |->
          IF x = field THEN value ELSE FieldLabel[field]]
  ELSE [x \in {field} |-> value]

\* a merge that keeps only the collected variables
SpreadReplacing(a, b) == b

\* { ...a, ...b }
Spread(a, b) ==
  [x \in DOMAIN a \cup DOMAIN b |-> IF x \in DOMAIN b THEN b[x] ELSE a[x]]

\* JSON.parse(this.storage.getItem(namespace)) || { ...fresh record }
readRecord(stepList, st) ==
  IF st = <<>> THEN FreshRecord(stepList) ELSE Parse(st[1])

\* storageData.vars = { ...storageData.vars, ...vars }
withVars(rec, collected) == [rec EXCEPT !.vars = Spread(@, collected)]

\* storage.setItem(namespace, JSON.stringify(storageData));
\* this.storageData = storageData
adopt(w, rec) == [w EXCEPT !.sd = rec, !.store = <<Stringify(rec)>>]

\* trackAnswer(nextStep); filter()
filterUnlessRaised(w) == Unless(w, filter(w))

\* functions.form(form)
form(stepList, hasHist, w, field, value, nextStep) ==
  filterUnlessRaised(
    trackAnswer(stepList, hasHist,
                adopt(w, withVars(readRecord(stepList, w.store), Collected(field, value))),
                nextStep))

\* the marker data-selected moves to the clicked answer
select(w, from) == [w EXCEPT !.sel = <<from>>]

\* this.filter(); this.trackAnswer(href, data-answer-path)
trackUnlessRaised(stepList, hasHist, w, nextStep) ==
  Unless(w, trackAnswer(stepList, hasHist, w, nextStep))

\* the click listener of an answer link that lives in step `from`
answerClick(stepList, hasHist, w, from, nextStep) ==
  trackUnlessRaised(stepList, hasHist, filter(select(w, from)), nextStep)

\* storageData.history = [first_step]; storageData.active = first_step
resetHistory(stepList, w) ==
  [w EXCEPT !.sd.history = <<stepList[1]>>, !.sd.active = stepList[1]]

\* history.every((val) => steps.indexOf(val) !== -1)
validHistory(stepList, hist) ==
  \A i \in 1..Len(hist) : StepExists(stepList, hist[i])

\* _validateHistory(storageData): a record whose history names a step that
\* is not in the page is reset and saved
validateHistory(stepList, w) ==
  IF Len(w.sd.history) > 0 /\ Len(stepList) > 0
     /\ ~validHistory(stepList, w.sd.history)
  THEN saveStorage(resetHistory(stepList, w))
  ELSE w

\* _loadStorage(id)
loadStorage(stepList, st, d) ==
  IF st = <<>>
  THEN World(FreshRecord(stepList), st, d, <<>>)
  ELSE validateHistory(stepList, World(Parse(st[1]), st, d, <<>>))

RECURSIVE hideAll(_, _)
hideNext(w, e, els) == hideAll(hide(w, e, TRUE), els \ {e})

\* querySelectorAll('#' + id + ' .step').forEach((step) => this.hide(step))
hideAll(w, els) == IF els = {} THEN w ELSE hideNext(w, CHOOSE x \in els : TRUE, els)

\* show(active)
showActive(stepList, w) == show(w, w.sd.active, StepExists(stepList, w.sd.active))

\* _initializeFunctionCalls(): every [data-df-show] element's hook is run
initializeFunctionCalls(stepList, hasHist, w) ==
  Unless(w, runHistoryHook(stepList, hasHist, w))

\* an activate whose raise leaves it
activateEndUncaught(w) == IF w.threw THEN w ELSE saveStorage(w)

\* the end of activate: the record is saved, or the raise is caught and
\* the container hidden
activateEnd(w) ==
  IF w.threw THEN [hide(w, "container", TRUE) EXCEPT !.threw = FALSE]
  ELSE saveStorage(w)

\* the condition chain of trackGA: what a page-view report does.  Reading
\* drupalSettings.google_analytics raises when drupalSettings is not
\* declared; ga.getAll()[0].get raises when ga has no tracker
report(env) ==
  IF env.gtag /\ env.settings = "undeclared" THEN "raised"
  ELSE IF env.gtag /\ env.settings = "configured" THEN "gtag"
  ELSE IF env.ga = "absent" THEN "skipped"
  ELSE IF env.ga = "noTracker" THEN "raised"
  ELSE "ga"

\* trackGA(path)
trackGA(pg, w) == IF report(pg.analytics) = "raised" THEN Raise(w) ELSE w

\* a summary element is created and prepended to the footer if the page has
\* none
ensureSummary(w) == [w EXCEPT !.disp["summary"] = IF @ = "absent" THEN "" ELSE @]

\* the footer's buttons get their onclick, which raises on a footer without
\* them, and the container gets the class dt-initialized
wireButtons(pg, w) ==
  IF pg.footer = "bare" THEN Raise(w)
  ELSE [w EXCEPT !.disp["dt-initialized"] = ""]

wireUnlessRaised(pg, w) == Unless(w, wireButtons(pg, w))

\* activate() after its page view was reported
activateReported(pg, stepList, hasHist, w) ==
  initializeFunctionCalls(stepList, hasHist,
    wireUnlessRaised(pg, filter(summaryHook(stepList, showActive(stepList,
      ensureSummary(toggleFooter(hideAll(w, {stepList[i] : i \in 1..Len(stepList)}))))))))

\* activate()
activate(pg, stepList, hasHist, w) ==
  activateEnd(IF trackGA(pg, w).threw THEN trackGA(pg, w)
              ELSE activateReported(pg, stepList, hasHist, w))

\* this.storageData of an instance whose constructor returned before
\* _loadStorage: undefined
NoRecord ==
  [active |-> "", history |-> <<>>, vars |-> NoVars, answers |-> {}, functions |-> {}]

\* _isStorageAvailable(): the storage object exists and setItem / removeItem
\* of the sentinel do not raise
isStorageAvailable(pg) == pg.storage = "ok"

\* a constructor that does not probe the storage
constructUnprobed(pg, stepList, hasHist, st) ==
  activate(pg, stepList, hasHist, loadStorage(stepList, st, FreshDisplay(pg)))

\* new ConvivialDecisionFlow(storage, id, el) on a freshly loaded page
construct(pg, stepList, hasHist, st) ==
  IF ~isStorageAvailable(pg) THEN World(NoRecord, st, FreshDisplay(pg), <<>>)
  ELSE activate(pg, stepList, hasHist, loadStorage(stepList, st, FreshDisplay(pg)))

-----------------------------------------------------------------------------
(* Filter expressions as an author writes them: criteria, each with or     *)
(* without a leading "!", joined by "," and "+"                            *)

\* the criteria of the README's examples
FilterAtoms ==
  << <<"var", "_", "age", "_", "gte", "_", "18">>,
     <<"var", "_", "age", "_", "gte", "_", "20">>,
     <<"var", "_", "nationality", "_", "eq", "_", "japanese">> >>

\* a criterion with or without the negation mark
SignedCriteria == [neg : BOOLEAN, atom : DOMAIN FilterAtoms]

\* an element without the attribute, and one whose attribute is empty
NoExpression    == [attr |-> "absent", crits |-> <<>>, seps |-> <<>>]
EmptyExpression == [attr |-> "empty", crits |-> <<>>, seps |-> <<>>]

\* the expressions of k criteria
ExpressionsOf(k) ==
  {[attr |-> "set", crits |-> c, seps |-> sp] :
     c \in [1..k -> SignedCriteria], sp \in [1..(k - 1) -> {",", "+"}]}

\* the README's combination of AND and OR
ReadmeExpression ==
  [attr  |-> "set",
   crits |-> <<[neg |-> TRUE, atom |-> 3], [neg |-> FALSE, atom |-> 1],
               [neg |-> FALSE, atom |-> 3], [neg |-> FALSE, atom |-> 2]>>,
   seps  |-> <<"+", ",", "+">>]

Expressions ==
  UNION {ExpressionsOf(k) : k \in 1..MaxCrit}
    \cup {NoExpression, EmptyExpression, ReadmeExpression}

\* the text of one criterion
CriterionText(c) == (IF c.neg THEN <<"!">> ELSE <<>>) \o FilterAtoms[c.atom]

RECURSIVE ExpressionText(_, _)
\* the text of the criteria joined by their separators
ExpressionText(crits, seps) ==
  IF Len(crits) = 1 THEN CriterionText(crits[1])
  ELSE CriterionText(crits[1]) \o <<seps[1]>> \o ExpressionText(Tail(crits), Tail(seps))

\* the element an author gives the expression to
Authored(x) ==
  [dtFilter |-> CASE x.attr = "absent" -> NoAttr
                  [] x.attr = "empty"  -> Attr(<<>>)
                  [] OTHER             -> Attr(ExpressionText(x.crits, x.seps)),
   dfFilter |-> NoAttr]

\* the variables earlier form submissions may have left in the record
SubmittedVars ==
  {[x \in {f \in {"age", "nationality"} : m[f] # "-"} |-> m[x]] :
     m \in [{"age", "nationality"} -> {"-", "15", "19", "20", "japanese", "other"}]}

-----------------------------------------------------------------------------
(* The legacy DecisionTree engine.  Its stored item is the object           *)
(* { [id]: record }; the model keeps what stands under the key id, which is *)
(* a record or, again, an object { [id]: record }.                          *)

\* { active, history }
DtRecord(a, h) == [kind |-> "record", active |-> a, history |-> h, inner |-> <<>>]

\* { [id]: x }
DtKeyed(x) == [kind |-> "keyed", active |-> "", history |-> <<>>, inner |-> <<x>>]

DtWorld(stg, st, d) == [storage |-> stg, store |-> st, disp |-> d, threw |-> FALSE]

\* _saveStorage(): storage[id] = this.storage; setItem(namespace, storage)
dtSaveStorage(w) == [w EXCEPT !.store = <<w.storage>>]

\* history.every((val) => steps.indexOf(val) !== -1) fails on storage[id]
dtInvalid(stepList, x) ==
  x.kind = "record" /\ Len(x.history) > 0 /\ Len(stepList) > 0
    /\ ~validHistory(stepList, x.history)

\* storage[id].history = [first_step]; storage[id].active = first_step
dtResetHistory(stepList, x) == DtRecord(stepList[1], <<stepList[1]>>)

\* _validateHistory(storage) on an invalid history: storage[id] is reset,
\* this.storage = storage is saved, and storage is returned
dtValidateHistory(stepList, w) ==
  IF dtInvalid(stepList, w.storage)
  THEN [w EXCEPT !.storage = dtResetHistory(stepList, @),
                 !.store = <<DtKeyed(dtResetHistory(stepList, w.storage))>>]
  ELSE w

\* _loadStorage(id): what it returns becomes this.storage
dtLoadStorage(stepList, st, d) ==
  IF st = <<>>
  THEN DtWorld(DtRecord(stepList[1], <<stepList[1]>>), st, d)
  ELSE dtValidateHistory(stepList, DtWorld(st[1], st, d))

\* show(elem): display block when the element exists
dtShow(w, e, exists) == IF exists THEN [w EXCEPT !.disp[e] = "block"] ELSE w

\* hide(elem)
dtHide(w, e, exists) == IF exists THEN [w EXCEPT !.disp[e] = "none"] ELSE w

\* toggleFooter()
dtToggleFooter(w) ==
  IF w.storage.kind = "record" /\ Len(w.storage.history) > 1
  THEN dtShow(w, "footer", TRUE) ELSE dtHide(w, "footer", TRUE)

\* _cleanHTML()
dtCleanHTML(w) == [w EXCEPT !.disp["summary"] = ""]

\* _showHistory(): raises on a history entry whose step is not in the page
dtShowHistory(stepList, w) ==
  IF validHistory(stepList, w.storage.history) /\ w.disp["histEl"] # "absent"
  THEN w ELSE Raise(w)

\* _showSummary(): raises when the active step is not in the page; on a
\* step without answer content or with data-show-summary the summary is
\* shown and _showHistory() run
dtShowSummary(stepList, w) ==
  IF w.storage.kind # "record" \/ ~StepExists(stepList, w.storage.active)
  THEN Raise(dtCleanHTML(w))
  ELSE IF IsTerminal(w.storage.active) \/ w.storage.active \in SummarySteps
       THEN dtShowHistory(stepList, dtShow(dtCleanHTML(w), "summary", TRUE))
       ELSE dtCleanHTML(w)

RECURSIVE dtHideAll(_, _)
dtHideNext(w, e, els) == dtHideAll(dtHide(w, e, TRUE), els \ {e})

\* querySelectorAll('#' + id + ' .step').forEach((step) => this.hide(step))
dtHideAll(w, els) ==
  IF els = {} THEN w ELSE dtHideNext(w, CHOOSE x \in els : TRUE, els)

\* show(active)
dtShowActive(stepList, w) ==
  dtShow(w, w.storage.active,
         w.storage.kind = "record" /\ StepExists(stepList, w.storage.active))

\* the end of activate: the record is saved, or the raise is caught and the
\* container hidden
dtActivateEnd(w) ==
  IF w.threw THEN [dtHide(w, "container", TRUE) EXCEPT !.threw = FALSE]
  ELSE dtSaveStorage(w)

\* activate()
dtActivate(stepList, w) ==
  dtActivateEnd(dtShowSummary(stepList, dtShowActive(stepList,
    dtToggleFooter(dtHideAll(w, {stepList[i] : i \in 1..Len(stepList)})))))

\* the DOM of a freshly loaded legacy page, authored with or without the
\* regions .decision-tree__history and .decision-tree__submission
DtDom(regions) ==
  [FreshDisplay(BoundPage) EXCEPT !["histEl"] = IF regions THEN @ ELSE "absent"]

\* new DecisionTree(id) on a freshly loaded page
dtConstruct(stepList, st, dom) ==
  dtActivate(stepList, dtLoadStorage(stepList, st, dom))

\* active = nextStep; history.push(active) only when history lacks it
dtPushUnlessIncluded(w, nextStep) ==
  [w EXCEPT !.storage.active = nextStep,
            !.storage.history = IF \E i \in 1..Len(@) : @[i] = nextStep
                                THEN @ ELSE Append(@, nextStep)]

\* active = nextStep; history.push(active)
dtPush(w, nextStep) ==
  [w EXCEPT !.storage.active = nextStep,
            !.storage.history = Append(@, nextStep)]

\* the end of trackAnswer: _showSummary(); toggleFooter()
dtToggleFooterUnlessRaised(w) == Unless(w, dtToggleFooter(w))

dtAfterSave(stepList, w) == dtToggleFooterUnlessRaised(dtShowSummary(stepList, w))

\* trackAnswer(nextStep, datakey)
dtTrackAnswer(stepList, w, nextStep) ==
  dtAfterSave(stepList,
    dtSaveStorage(dtPush(
      dtShow(dtHide(w, w.storage.active, StepExists(stepList, w.storage.active)),
             nextStep, StepExists(stepList, nextStep)),
      nextStep)))

\* _handleFormSubmit(form): the fields go to items of their own in
\* localStorage, apart from the record; then trackAnswer(action)
dtHandleFormSubmit(stepList, w, nextStep) == dtTrackAnswer(stepList, w, nextStep)

\* const previousStep = history[history.length - 2]
dtPreviousStep(w) == w.storage.history[Len(w.storage.history) - 1]

\* active = previousStep; history.pop()
dtPop(w) ==
  [w EXCEPT !.storage.active = dtPreviousStep(w),
            !.storage.history = SubSeq(@, 1, Len(@) - 1)]

\* trackBackButton()
dtTrackBackButton(stepList, w) ==
  IF Len(w.storage.history) <= 1 THEN w
  ELSE dtToggleFooter(dtSaveStorage(dtPop(dtCleanHTML(
         dtShow(dtHide(w, w.storage.active, StepExists(stepList, w.storage.active)),
                dtPreviousStep(w), StepExists(stepList, dtPreviousStep(w)))))))

\* active = first_step; history = [first_step]
dtReset(stepList, w) ==
  [w EXCEPT !.storage.active = stepList[1], !.storage.history = <<stepList[1]>>]

\* trackRestartButton()
dtTrackRestartButton(stepList, w) ==
  dtCleanHTML(dtToggleFooter(dtSaveStorage(dtReset(stepList,
    dtShow(dtHide(w, w.storage.active, StepExists(stepList, w.storage.active)),
           stepList[1], TRUE)))))

\* the legacy page and its instance: the page's step list, the record the
\* instance holds, the stored item, the DOM, and of the last construction
\* the item it found (st) and what _loadStorage (l) had returned and written
\* when activate began
DtPage(stepList, w, st, l) ==
  [steps |-> stepList, storage |-> w.storage, store |-> w.store, disp |-> w.disp,
   found |-> st, entered |-> l.storage, written |-> l.store, raised |-> w.threw]

\* the page after new DecisionTree(id) on the store st
DtConstructed(stepList, st, dom) ==
  DtPage(stepList, dtConstruct(stepList, st, dom), st,
         dtLoadStorage(stepList, st, dom))

\* the page after a handler of its instance; raised tells that the
\* handler's raise left it
DtHandled(w) ==
  [dt EXCEPT !.storage = w.storage, !.store = w.store, !.disp = w.disp,
             !.raised = w.threw]

\* a legacy page with both regions on a visitor's first visit
DtFresh == DtConstructed(PageSteps, <<>>, DtDom(TRUE))

-----------------------------------------------------------------------------
(* The function registry and the markup the instance is constructed on *)

(* Two containers on one page, constructed by the DOMContentLoaded listener *)

\* the ids of the page's .convivial-decision-flow elements, in document order
FlowIds == <<"flow-a", "flow-b">>

FlowSet == {FlowIds[i] : i \in 1..Len(FlowIds)}

\* the key of a container's record in localStorage
Namespace(id) == "convivial-decision-flow." \o id

\* a container before its instance is constructed; region is the display of
\* its .convivial-decision-flow__history element, "absent" when the
\* container is authored without one
Unbuilt(authored) ==
  [sd |-> NoRecord, disp |-> FreshDisplay(BoundPage), sel |-> <<>>,
   fns |-> DefaultFunctions, region |-> IF authored THEN "" ELSE "absent",
   built |-> FALSE]

\* the page as loaded, before the listener runs
FlowsLoaded(storage, authored) ==
  [storage |-> storage,
   inst |-> [id \in FlowSet |-> Unbuilt(authored[id])],
   last |-> [op |-> "load", id |-> ""]]

\* the page on an empty localStorage, every container with a history region
FlowsFresh ==
  FlowsLoaded([k \in {Namespace(id) : id \in FlowSet} |-> <<>>],
              [id \in FlowSet |-> TRUE])

\* the answers authored in each container: every step links to the steps
\* after it
FlowLinks ==
  {link \in {<<StepId(i), StepId(j)>> : i \in 1..NumSteps, j \in 1..NumSteps} :
     \E i \in 1..NumSteps, j \in 1..NumSteps :
       i < j /\ link = <<StepId(i), StepId(j)>>}

\* the world the instance of container id acts in
flowWorld(fl, id) ==
  [World(fl.inst[id].sd, fl.storage[Namespace(id)], fl.inst[id].disp, fl.inst[id].sel)
     EXCEPT !.fns = fl.inst[id].fns]

\* historyElement.style.display = 'none' on the element found
hideRegion(r) == IF r = "absent" THEN r ELSE "none"

\* historyElement.style.display = history.length > 1 ? 'block' : 'none'
recapRegion(sd, r) ==
  IF r = "absent" THEN r ELSE IF Len(sd.history) > 1 THEN "block" ELSE "none"

\* the built-in functions.show.summary on the container's own history
\* region, when a handler ran it on a step without answers
summaryRegion(stepList, w, r) ==
  IF <<"show", "summary", "builtin">> \in w.ran /\ ~furtherQuestions(stepList, w)
  THEN recapRegion(w.sd, r) ELSE r

\* the page after the instance of container id ran a handler to world w
flowHandled(fl, id, w, region, op) ==
  [fl EXCEPT !.inst[id] = [sd |-> w.sd, disp |-> w.disp, sel |-> w.sel,
                           fns |-> @.fns, region |-> region, built |-> TRUE],
             !.storage[Namespace(id)] = w.store,
             !.last = [op |-> op, id |-> id]]

\* document.querySelector('.convivial-decision-flow__history'): the first
\* such element of the document
firstRegion(fl) ==
  IF \E i \in 1..Len(FlowIds) : fl.inst[FlowIds[i]].region # "absent"
  THEN <<FlowIds[CHOOSE i \in 1..Len(FlowIds) :
           /\ fl.inst[FlowIds[i]].region # "absent"
           /\ \A j \in 1..(i - 1) : fl.inst[FlowIds[j]].region = "absent"]>>
  ELSE <<>>

\* a selector that finds the history region inside the container
ownRegion(fl, id) == IF fl.inst[id].region # "absent" THEN <<id>> ELSE <<>>

\* the listener's lines after new ConvivialDecisionFlow(...): the element
\* found is displayed by the history of the instance just constructed
recapFound(fl, found, id) ==
  IF found = <<>> THEN fl
  ELSE [fl EXCEPT !.inst[found[1]].region = recapRegion(fl.inst[id].sd, @)]

\* new ConvivialDecisionFlow(localStorage, el.id, el): activate() hides the
\* container's own history region
flowConstructed(fl, id) ==
  flowHandled(fl, id,
              construct(BoundPage, PageSteps, TRUE, fl.storage[Namespace(id)]),
              hideRegion(fl.inst[id].region), "construct")

\* a listener whose selectors are scoped to the container
bootstrapScoped(fl, id) ==
  recapFound(flowConstructed(fl, id), ownRegion(fl, id), id)

\* one round of the listener's forEach, for the container id
bootstrap(fl, id) ==
  recapFound(flowConstructed(fl, id), firstRegion(fl), id)

\* no call of the registry's methods has been made
NoCall == [op |-> "none", type |-> "", name |-> "", fn |-> "", end |-> ""]

\* compare has not been called
NoCompare == [left |-> JUndef, op |-> JUndef, right |-> JUndef, res |-> "none"]

\* the registry is as constructed, no API call is made
ApiIdle ==
  /\ cmp = NoCompare
  /\ functions = DefaultFunctions
  /\ call = NoCall
  /\ page = BoundPage
  /\ flows = FlowsFresh

-----------------------------------------------------------------------------
(* The flow on a page: one visitor, one tab, no analytics globals *)

\* filter evaluation is not part of the navigation runs
NoFilterRun == fx = NoExpression /\ fres = "none"

\* the in-memory record, the stored item and the DOM after a handler
Install(w) ==
  /\ storageData' = w.sd
  /\ store' = w.store
  /\ display' = w.disp
  /\ selected' = w.sel

\* the world a handler starts in
Now == [World(storageData, store, display, selected) EXCEPT !.fns = functions]

\* how a handler ended: it raised ("raised"), it completed towards a step
\* that is not in the page ("void"), or it completed ("ok"); revisit is the
\* id a forward handler was given when history held that id already
Outcome(w, exists, revisit) ==
  [end |-> IF w.threw THEN "raised" ELSE IF exists THEN "ok" ELSE "void",
   revisit |-> revisit]

\* what a visitor can act on: an element of a displayed step of a
\* displayed container
Clickable(step) ==
  /\ last.end # "inert"
  /\ StepExists(steps, step)
  /\ Displayed(display, "container")
  /\ Displayed(display, step)

\* how a construction ended: the constructor returned before loading
\* ("inert"), a raise left it ("escaped"), activate hid the container
\* ("failed"), or activate completed ("ok")
Activated(pg, w) ==
  [end |-> IF ~isStorageAvailable(pg) THEN "inert"
           ELSE IF w.threw THEN "escaped"
           ELSE IF Displayed(w.disp, "container") THEN "ok" ELSE "failed",
   revisit |-> ""]

\* the state after a construction
Constructed(pg, w) ==
  /\ storageData = w.sd
  /\ store = w.store
  /\ display = w.disp
  /\ selected = w.sel
  /\ last = Activated(pg, w)

Init ==
  /\ steps = PageSteps
  /\ histShow \in BOOLEAN
  /\ Constructed(BoundPage, construct(BoundPage, PageSteps, histShow, <<>>))
  /\ phase = "fwd" /\ depth = 0
  /\ NoFilterRun
  /\ dt = DtFresh
  /\ ApiIdle

\* a forward handler has run; the run stays "n forward transitions to new
\* existing steps, then n times Back" only if this one came before any
\* Back, completed and went to a new existing step
Forward(w, nextStep) ==
  /\ Install(w)
  /\ last' = Outcome(w, StepExists(steps, nextStep),
                     IF Includes(storageData.history, nextStep) THEN nextStep ELSE "")
  /\ IF phase = "fwd" /\ ~w.threw /\ StepExists(steps, nextStep)
        /\ ~Includes(storageData.history, nextStep)
     THEN phase' = "fwd" /\ depth' = depth + 1
     ELSE phase' = "off" /\ depth' = 0

\* the visitor clicks the answer of step `from` that links to nextStep
AnswerClick(from, nextStep) ==
  /\ Clickable(from) /\ ~IsTerminal(from)
  /\ Forward(answerClick(steps, histShow, Now, from, nextStep), nextStep)
  /\ UNCHANGED <<steps, histShow, fx, fres, dt, apiVars>>

\* the visitor submits the form of step `from` whose action is nextStep
FormSubmit(from, field, value, nextStep) ==
  /\ page.formClass = "dt-form"
  /\ Clickable(from) /\ field \in FormOf(from)
  /\ Forward(form(steps, histShow, Now, field, value, nextStep), nextStep)
  /\ UNCHANGED <<steps, histShow, fx, fres, dt, apiVars>>

\* the visitor presses Back
Back ==
  /\ last.end # "inert"
  /\ Displayed(display, "container") /\ Displayed(display, "footer")
  /\ Install(trackBackButton(steps, Now))
  /\ last' = Outcome(Now, Len(storageData.history) <= 1
                          \/ StepExists(steps, previousStep(Now)), "")
  /\ IF phase \in {"fwd", "back"} /\ depth > 0
     THEN phase' = "back" /\ depth' = depth - 1
     ELSE phase' = "off" /\ depth' = 0
  /\ UNCHANGED <<steps, histShow, fx, fres, dt, apiVars>>

\* the visitor presses Restart
Restart ==
  /\ last.end # "inert"
  /\ Displayed(display, "container") /\ Displayed(display, "footer")
  /\ Install(trackRestartButton(steps, Now))
  /\ last' = Outcome(Now, TRUE, "")
  /\ phase' = "fwd" /\ depth' = 0
  /\ UNCHANGED <<steps, histShow, fx, fres, dt, apiVars>>

\* the page is loaded again, possibly after its markup was edited: a new
\* instance is constructed against the same storage
Reload(newSteps) ==
  /\ Install(construct(page, newSteps, histShow, store))
  /\ last' = Activated(page, construct(page, newSteps, histShow, store))
  /\ steps' = newSteps
  /\ phase' = "off" /\ depth' = 0
  /\ UNCHANGED <<histShow, fx, fres, dt, apiVars>>

Next ==
  \/ \E from \in Targets, t \in Targets : AnswerClick(from, t)
  \/ \E from \in Targets, t \in Targets :
       \E f \in FormOf(from) : \E v \in FieldValues(f) : FormSubmit(from, f, v, t)
  \/ Back
  \/ Restart
  \/ \E l \in StepLists : Reload(l)

Spec == Init /\ [][Next]_allVars

\* a page is loaded over a record that holds submitted variables; one of
\* its elements carries the expression fx
FilterInit ==
  /\ steps = PageSteps
  /\ histShow = FALSE
  /\ \E v \in SubmittedVars :
       Constructed(BoundPage,
                   construct(BoundPage, PageSteps, FALSE,
                             <<Stringify([FreshRecord(PageSteps) EXCEPT !.vars = v])>>))
  /\ phase = "off" /\ depth = 0
  /\ fx \in Expressions
  /\ fres = "none"
  /\ dt = DtFresh
  /\ ApiIdle

\* functions.filter.process(element) is called on that element
Process ==
  /\ fres = "none"
  /\ fres' = process(storageData.vars, storageData.history, Authored(fx))
  /\ UNCHANGED <<steps, histShow, storageData, store, display, selected, last,
                 phase, depth, fx, dt, apiVars>>

SpecFilter == FilterInit /\ [][Process]_allVars

-----------------------------------------------------------------------------
(* Criteria whose first part is any name an author can write *)

\* criteria by name: entries of this.functions.filter (compare, evaluate,
\* process), the two built-in evaluators, and names nothing is registered
\* under
NamedCriteria ==
  {<<"process">>, <<"process", "_", "x">>,
   <<"evaluate">>, <<"evaluate", "_", "evaluate">>, <<"evaluate", "_", "process">>,
   <<"evaluate", "_", "visited", "_", StepId(1)>>,
   <<"compare", "_", "eq", "_", "x">>,
   <<"var", "_", "age", "_", "gte", "_", "18">>,
   <<"visited", "_", StepId(1)>>,
   <<"foo">>, <<"foo", "_", "1">>, <<"Var", "_", "age", "_", "gte", "_", "18">>}

\* the element whose data-dt-filter is one criterion, negated or not
Criterion(x) ==
  [dtFilter |-> Attr((IF x.neg THEN <<"!">> ELSE <<>>) \o x.text), dfFilter |-> NoAttr]

CriteriaInit ==
  /\ steps = PageSteps
  /\ histShow = FALSE
  /\ \E v \in SubmittedVars :
       Constructed(BoundPage,
                   construct(BoundPage, PageSteps, FALSE,
                             <<Stringify([FreshRecord(PageSteps) EXCEPT !.vars = v])>>))
  /\ phase = "off" /\ depth = 0
  /\ fx \in [neg : BOOLEAN, text : NamedCriteria]
  /\ fres = "none"
  /\ dt = DtFresh
  /\ ApiIdle

\* functions.filter.process(element) is called on that element
ProcessCriterion ==
  /\ fres = "none"
  /\ fres' = process(storageData.vars, storageData.history, Criterion(fx))
  /\ UNCHANGED <<steps, histShow, storageData, store, display, selected, last,
                 phase, depth, fx, dt, apiVars>>

SpecCriteria == CriteriaInit /\ [][ProcessCriterion]_allVars

\* what the engines hand to compare as the variable: a submitted value, or
\* undefined (vars[key] of the successor) or null (getItem of the legacy
\* engine) when the variable is not set
Lefts ==
  {JUndef, JNull} \cup {JStr(x) : x \in {"", "9", "18", "20", "abc", "japanese"}}

\* the operator token of a criterion; undefined when the criterion has none
Operators ==
  {JUndef} \cup {JStr(x) : x \in {"gt", "gte", "lt", "lte", "eq", "empty", "between"}}

\* the value token of a criterion; undefined when the criterion has none
Rights == {JUndef} \cup {JStr(x) : x \in {"", "9", "18", "abc", "japanese"}}

\* a filter pass is about to compare a variable with a criterion's value
CompareInit ==
  /\ steps = PageSteps
  /\ histShow = FALSE
  /\ Constructed(BoundPage, construct(BoundPage, PageSteps, FALSE, <<>>))
  /\ phase = "off" /\ depth = 0
  /\ NoFilterRun
  /\ dt = DtFresh
  /\ cmp \in [left : Lefts, op : Operators, right : Rights, res : {"none"}]
  /\ functions = DefaultFunctions
  /\ call = NoCall
  /\ page = BoundPage
  /\ flows = FlowsFresh

\* functions.filter.compare / _compare is called
Compare ==
  /\ cmp.res = "none"
  /\ cmp' = [cmp EXCEPT !.res = Ret(compare(cmp.left, cmp.op, cmp.right))]
  /\ UNCHANGED <<steps, histShow, storageData, store, display, selected, last,
                 phase, depth, fx, fres, dt, functions, call, page, flows>>

SpecCompare == CompareInit /\ [][Compare]_allVars

-----------------------------------------------------------------------------
(* The engine on pages that differ from the README example *)

\* storage: localStorage works, is not there, or refuses setItem;
\* formClass: the class the forms are authored with;
\* footer: authored with both buttons, not authored, authored without them;
\* analytics: no gtag / ga global, or gtag without drupalSettings
Pages ==
  [storage : {"ok", "undefined", "blocked"}, formClass : {"dt-form", "df-form"},
   footer : {"buttons", "none", "bare"}, analytics : {NoAnalytics, GtagAlone}]

PageInit ==
  /\ page \in Pages
  /\ steps = PageSteps
  /\ histShow = FALSE
  /\ Constructed(page, construct(page, PageSteps, FALSE, <<>>))
  /\ phase = "off" /\ depth = 0
  /\ fx = NoExpression /\ fres = "none"
  /\ dt = DtFresh
  /\ cmp = NoCompare /\ functions = DefaultFunctions /\ call = NoCall
  /\ flows = FlowsFresh

\* the visitor submits the form of step `from`, which has no submit
\* listener: the browser navigates to the form's action with the fields in
\* the query string, the page loads again and the engine is constructed on
\* the storage as it stands
NativeSubmit(from) ==
  /\ page.formClass # "dt-form"
  /\ Clickable(from)
  /\ Install(construct(page, steps, histShow, store))
  /\ last' = [end |-> "native", revisit |-> ""]
  /\ phase' = "off" /\ depth' = 0
  /\ UNCHANGED <<steps, histShow, fx, fres, dt, apiVars>>

PageNext ==
  \/ \E from \in Targets, to \in Targets : AnswerClick(from, to)
  \/ \E from \in Targets, to \in Targets :
       \E f \in FormOf(from) : \E v \in FieldValues(f) : FormSubmit(from, f, v, to)
  \/ \E from \in Targets : NativeSubmit(from)
  \/ Back
  \/ Restart
  \/ \E l \in StepLists : Reload(l)

SpecPage == PageInit /\ [][PageNext]_allVars

-----------------------------------------------------------------------------
(* The function registry as the host page's script uses it *)

\* the type buckets and names a host script passes
Types == {"show", "custom"}
Names == DOMAIN Spelling

\* what a script passes as fn: a function, or a string
Callables == {"host", "text"}

RegistryInit ==
  /\ steps = PageSteps
  /\ histShow = FALSE
  /\ Constructed(BoundPage, construct(BoundPage, PageSteps, FALSE, <<>>))
  /\ phase = "off" /\ depth = 0
  /\ NoFilterRun
  /\ dt = DtFresh
  /\ ApiIdle

\* the host script calls defineFunction
DefineFunction(type, name, fn) ==
  /\ functions' = defineFunction(functions, type, name, fn)
  /\ call' = [op |-> "define", type |-> type, name |-> name, fn |-> fn,
              end |-> defineEnd(fn)]
  /\ UNCHANGED <<steps, histShow, storageData, store, display, selected, last,
                 phase, depth, fx, fres, dt, cmp, page, flows>>

\* the host script calls executeFunction
ExecuteFunction(type, name) ==
  /\ Install(executeFunction(functions, steps, Now, type, name).w)
  /\ call' = [op |-> "execute", type |-> type, name |-> name, fn |-> "",
              end |-> executeFunction(functions, steps, Now, type, name).end]
  /\ UNCHANGED <<steps, histShow, last, phase, depth, fx, fres, dt, cmp,
                 functions, page, flows>>

RegistryNext ==
  \/ \E type \in Types, name \in Names, fn \in Callables : DefineFunction(type, name, fn)
  \/ \E type \in Types, name \in Names : ExecuteFunction(type, name)

SpecRegistry == RegistryInit /\ [][RegistryNext]_allVars

-----------------------------------------------------------------------------
(* The README page under every combination of analytics globals *)

AnalyticsEnvs ==
  [gtag : BOOLEAN, settings : {"undeclared", "noAccount", "configured"},
   ga : {"absent", "noTracker", "tracker"}]

AnalyticsInit ==
  /\ \E env \in AnalyticsEnvs : page = [BoundPage EXCEPT !.analytics = env]
  /\ steps = PageSteps
  /\ histShow = FALSE
  /\ Constructed(page, construct(page, PageSteps, FALSE, <<>>))
  /\ phase = "off" /\ depth = 0
  /\ NoFilterRun
  /\ dt = DtFresh
  /\ cmp = NoCompare /\ functions = DefaultFunctions /\ call = NoCall
  /\ flows = FlowsFresh

AnalyticsNext ==
  \/ \E from \in Targets, to \in Targets : AnswerClick(from, to)
  \/ Back
  \/ Restart
  \/ Reload(steps)

SpecAnalytics == AnalyticsInit /\ [][AnalyticsNext]_allVars

-----------------------------------------------------------------------------
(* The flow on a page whose script replaces built-in hooks *)

\* the built-in entries a host script replaces
Hooks == {<<"show", "summary">>, <<"show", "history">>, <<"filter", "process">>}

\* defineFunction(type, name, fn2) for a built-in (type, name)
Override(type, name) ==
  /\ <<type, name>> \in Hooks
  /\ DefineFunction(type, name, "host")

\* the page is loaded again: the new instance's registry holds the
\* built-in entries
Reconstruct ==
  /\ Install(construct(page, steps, histShow, store))
  /\ last' = Activated(page, construct(page, steps, histShow, store))
  /\ phase' = "off" /\ depth' = 0
  /\ functions' = DefaultFunctions
  /\ call' = NoCall
  /\ UNCHANGED <<steps, histShow, fx, fres, dt, cmp, page, flows>>

HooksNext ==
  \/ \E from \in Targets, t \in Targets : AnswerClick(from, t)
  \/ \E from \in Targets, t \in Targets :
       \E f \in FormOf(from) : \E v \in FieldValues(f) : FormSubmit(from, f, v, t)
  \/ Back
  \/ Restart
  \/ \E h \in Hooks : Override(h[1], h[2])
  \/ Reconstruct

SpecHooks == Init /\ [][HooksNext]_allVars

-----------------------------------------------------------------------------
(* The flow over a stored record that carries function text *)

\* the names under which the stored record's functions field holds text
StoredTexts == {{}, {"missingName"}, {"history", "missingName"}}

\* the stored item with its functions field replaced
withFunctions(st, texts) ==
  IF st = <<>> THEN st ELSE <<[st[1] EXCEPT !.functions = texts]>>

StoredInit ==
  /\ steps = PageSteps
  /\ histShow = TRUE
  /\ \E texts \in StoredTexts :
       Constructed(BoundPage, construct(BoundPage, PageSteps, TRUE,
         withFunctions(<<Stringify(FreshRecord(PageSteps))>>, texts)))
  /\ phase = "off" /\ depth = 0
  /\ NoFilterRun
  /\ dt = DtFresh
  /\ ApiIdle

StoredNext ==
  \/ \E from \in Targets, t \in Targets : AnswerClick(from, t)
  \/ Back
  \/ Restart
  \/ Reload(steps)
  \/ \E type \in Types, name \in Names : ExecuteFunction(type, name)

SpecStored == StoredInit /\ [][StoredNext]_allVars

-----------------------------------------------------------------------------
(* Two flows on one page *)

FlowsInit ==
  /\ steps = PageSteps
  /\ histShow = TRUE
  /\ Constructed(BoundPage, construct(BoundPage, PageSteps, TRUE, <<>>))
  /\ phase = "off" /\ depth = 0
  /\ NoFilterRun
  /\ dt = DtFresh
  /\ cmp = NoCompare /\ functions = DefaultFunctions /\ call = NoCall
  /\ page = BoundPage
  /\ flows = FlowsFresh

\* the listener has constructed every instance: the visitor and the host
\* script act after it returned
Listened == \A id \in FlowSet : flows.inst[id].built

\* the instance of container id lets the visitor act on step
FlowClickable(id, step) ==
  /\ Listened
  /\ StepExists(PageSteps, step)
  /\ Displayed(flows.inst[id].disp, "container")
  /\ Displayed(flows.inst[id].disp, step)

\* the listener reaches the i-th container
Bootstrap(i) ==
  /\ ~flows.inst[FlowIds[i]].built
  /\ \A j \in 1..(i - 1) : flows.inst[FlowIds[j]].built
  /\ flows' = bootstrap(flows, FlowIds[i])
  /\ UNCHANGED <<steps, histShow, storageData, store, display, selected, last,
                 phase, depth, fx, fres, dt, cmp, functions, call, page>>

\* the visitor clicks an answer in container id
FlowAnswer(id, from, nextStep) ==
  /\ FlowClickable(id, from) /\ ~IsTerminal(from)
  /\ flows' = flowHandled(flows, id,
                 answerClick(PageSteps, TRUE, flowWorld(flows, id), from, nextStep),
                 summaryRegion(PageSteps,
                   answerClick(PageSteps, TRUE, flowWorld(flows, id), from, nextStep),
                   flows.inst[id].region),
                 "answer")
  /\ UNCHANGED <<steps, histShow, storageData, store, display, selected, last,
                 phase, depth, fx, fres, dt, cmp, functions, call, page>>

\* the visitor submits a form in container id
FlowSubmit(id, from, field, value, nextStep) ==
  /\ FlowClickable(id, from) /\ field \in FormOf(from)
  /\ flows' = flowHandled(flows, id,
                 form(PageSteps, TRUE, flowWorld(flows, id), field, value, nextStep),
                 summaryRegion(PageSteps,
                   form(PageSteps, TRUE, flowWorld(flows, id), field, value, nextStep),
                   flows.inst[id].region),
                 "submit")
  /\ UNCHANGED <<steps, histShow, storageData, store, display, selected, last,
                 phase, depth, fx, fres, dt, cmp, functions, call, page>>

\* the visitor presses Back in container id
FlowBack(id) ==
  /\ Listened
  /\ Displayed(flows.inst[id].disp, "container")
  /\ Displayed(flows.inst[id].disp, "footer")
  /\ flows' = flowHandled(flows, id, trackBackButton(PageSteps, flowWorld(flows, id)),
                          flows.inst[id].region, "back")
  /\ UNCHANGED <<steps, histShow, storageData, store, display, selected, last,
                 phase, depth, fx, fres, dt, cmp, functions, call, page>>

\* the visitor presses Restart in container id
FlowRestart(id) ==
  /\ Listened
  /\ Displayed(flows.inst[id].disp, "container")
  /\ Displayed(flows.inst[id].disp, "footer")
  /\ flows' = flowHandled(flows, id, trackRestartButton(PageSteps, flowWorld(flows, id)),
                          IF trackRestartButton(PageSteps, flowWorld(flows, id)).threw
                          THEN flows.inst[id].region
                          ELSE hideRegion(flows.inst[id].region),
                          "restart")
  /\ UNCHANGED <<steps, histShow, storageData, store, display, selected, last,
                 phase, depth, fx, fres, dt, cmp, functions, call, page>>

\* the host script replaces show.summary in the instance of container id
FlowDefine(id) ==
  /\ Listened
  /\ flows' = [flows EXCEPT
                 !.inst[id].fns = defineFunction(@, "show", "summary", "host"),
                 !.last = [op |-> "define", id |-> id]]
  /\ UNCHANGED <<steps, histShow, storageData, store, display, selected, last,
                 phase, depth, fx, fres, dt, cmp, functions, call, page>>

\* the visitor loads the page again
FlowsReload ==
  /\ Listened
  /\ flows' = FlowsLoaded(flows.storage,
                          [id \in FlowSet |-> flows.inst[id].region # "absent"])
  /\ UNCHANGED <<steps, histShow, storageData, store, display, selected, last,
                 phase, depth, fx, fres, dt, cmp, functions, call, page>>

FlowsNext ==
  \/ \E i \in 1..Len(FlowIds) : Bootstrap(i)
  \/ \E id \in FlowSet, link \in FlowLinks : FlowAnswer(id, link[1], link[2])
  \/ \E id \in FlowSet :
       \E f \in FormOf(StepId(1)) : \E v \in FieldValues(f) :
         FlowSubmit(id, StepId(1), f, v, StepId(2))
  \/ \E id \in FlowSet : FlowBack(id)
  \/ \E id \in FlowSet : FlowRestart(id)
  \/ \E id \in FlowSet : FlowDefine(id)
  \/ FlowsReload

SpecFlows == FlowsInit /\ [][FlowsNext]_allVars

-----------------------------------------------------------------------------
(* The storage probe on a backing store that holds other keys *)

\* storage.setItem(key, value): raises when the store refuses writes
setItem(pg, backing, key, value) ==
  IF pg.storage = "blocked" THEN [backing |-> backing, threw |-> TRUE]
  ELSE [backing |-> [backing EXCEPT ![key] = <<value>>], threw |-> FALSE]

\* storage.removeItem(key)
removeItem(backing, key) == [backing EXCEPT ![key] = <<>>]

\* the statements of the probe after its typeof test
probeWrites(written) ==
  IF written.threw THEN [ok |-> FALSE, backing |-> written.backing]
  ELSE [ok |-> TRUE, backing |-> removeItem(written.backing, "test")]

\* _isStorageAvailable() / _isLocalStorageAvailable(): what it returns and
\* the backing store it leaves
probe(pg, backing) ==
  IF pg.storage = "undefined" THEN [ok |-> FALSE, backing |-> backing]
  ELSE probeWrites(setItem(pg, backing, "test", "test"))

\* the backing stores a page is loaded on: the host page's key 'test' is
\* absent or holds a value, each flow's key is absent or holds a text
Backings ==
  [{"test"} \cup {Namespace(id) : id \in FlowSet} -> {<<>>, <<"test">>, <<"host">>}]

ProbeInit ==
  /\ steps = PageSteps
  /\ histShow = FALSE
  /\ \E st \in {"ok", "undefined", "blocked"} : page = [BoundPage EXCEPT !.storage = st]
  /\ Constructed(page, construct(page, PageSteps, FALSE, <<>>))
  /\ phase = "off" /\ depth = 0
  /\ NoFilterRun
  /\ dt = DtFresh
  /\ cmp = NoCompare /\ functions = DefaultFunctions /\ call = NoCall
  /\ \E backing \in Backings :
       flows = [storage |-> backing, before |-> backing,
                last |-> [op |-> "load", id |-> ""]]

\* the constructor probes the storage
Probe ==
  /\ flows.last.op = "load"
  /\ flows' = [flows EXCEPT !.storage = probe(page, @).backing,
                            !.last = [op |-> "probe", id |-> ""]]
  /\ UNCHANGED <<steps, histShow, storageData, store, display, selected, last,
                 phase, depth, fx, fres, dt, cmp, functions, call, page>>

SpecProbe == ProbeInit /\ [][Probe]_allVars

-----------------------------------------------------------------------------
(* The rendered regions: the summary, the history region and the          *)
(* submission region of a page.  A scene is the record an engine holds and *)
(* the content and visibility of the regions; the history and submission   *)
(* regions of the successor page carry the class and the data-df-show      *)
(* attribute on one element.                                               *)

Item(tag, text) == [tag |-> tag, text |-> text]

Node(tag, text, items) == [tag |-> tag, text |-> text, items |-> items]

\* an authored region, empty
Region(present) == [present |-> present, display |-> "", children |-> <<>>]

\* el.insertAdjacentHTML('beforeend', html): the nodes are added
insertAdjacentHTML(el, nodes) == [el EXCEPT !.children = @ \o nodes]

\* el.innerHTML = html: the children of el are replaced
innerHTML(el, nodes) == [el EXCEPT !.children = nodes]

\* el.appendChild(node)
appendChild(el, node) == [el EXCEPT !.children = Append(@, node)]

\* el.style.display = value
styleDisplay(el, value) == [el EXCEPT !.display = value]

\* Object.keys(vars), taken in the order the form fields are authored
KeyOrder == <<"age", "age_label", "nationality", "nationality_label">>

keys(vars) == SelectSeq(KeyOrder, LAMBDA k : k \in DOMAIN vars)

\* key.endsWith('_label')
endsWithLabel(key) == key \in {f \o "_label" : f \in DOMAIN FieldLabel}

\* _capitalizeFirstLetter(string)
capitalizeFirstLetter(string) ==
  CASE string = "japanese" -> "Japanese"
    [] string = "other" -> "Other"
    [] OTHER -> string

\* submissions[key + '_label'] || key
labelOrKey(vars, key) ==
  IF (key \o "_label") \in DOMAIN vars /\ vars[key \o "_label"] # ""
  THEN vars[key \o "_label"] ELSE key

\* the dt/dd pairs of the successor's submission list: one pair per key that
\* does not end with _label
submissionItems(vars, ks) ==
  [i \in 1..(2 * Len(ks)) |->
     IF i % 2 = 1 THEN Item("dt", labelOrKey(vars, ks[(i + 1) \div 2]))
     ELSE Item("dd", capitalizeFirstLetter(vars[ks[i \div 2]]))]

fieldKeys(vars) == SelectSeq(keys(vars), LAMBDA k : ~endsWithLabel(k))

\* submissionElement.innerHTML = '<h3>Submission</h3>'; appendChild(dl);
\* style.display = 'block'
submissionShown(el, vars) ==
  styleDisplay(appendChild(innerHTML(el, <<Node("h3", "Submission", <<>>)>>),
                           Node("dl", "", submissionItems(vars, fieldKeys(vars)))),
               "block")

\* functions.show.submission(context, el)
show_submission(sc) ==
  IF ~sc.dom.submission.present THEN sc
  ELSE IF fieldKeys(sc.rec.vars) = <<>>
       THEN [sc EXCEPT !.dom.submission = styleDisplay(@, "none")]
       ELSE [sc EXCEPT !.dom.submission = submissionShown(@, sc.rec.vars)]

\* the dt of a step's question and, when storageData.answers holds a text
\* for the step, the dd of that text
RECURSIVE answeredItems(_, _)
answeredItems(hist, answers) ==
  IF hist = <<>> THEN <<>>
  ELSE <<Item("dt", Head(hist) \o "?")>>
         \o (IF Head(hist) \in answers THEN <<Item("dd", "answer at " \o Head(hist))>>
             ELSE <<>>)
         \o answeredItems(Tail(hist), answers)

\* functions.show.history(context, el)
show_history(sc) ==
  IF Len(sc.rec.history) > 1 /\ sc.dom.history.present
  THEN [sc EXCEPT !.dom.history =
          styleDisplay(appendChild(innerHTML(@, <<Node("h3", "History", <<>>)>>),
                                   Node("dl", "", answeredItems(sc.rec.history,
                                                                sc.rec.answers))),
                       "block")]
  ELSE sc

\* infoHTML of functions.show.summary: per step the question in a dt and
\* the heading in a dd
headedItems(hist) ==
  [i \in 1..(2 * Len(hist)) |->
     IF i % 2 = 1 THEN Item("dt", hist[(i + 1) \div 2] \o "?")
     ELSE Item("dd", "heading of " \o hist[i \div 2])]

\* the history branch of functions.show.summary
summaryHistory(el, hist) ==
  IF ~el.present THEN el
  ELSE IF Len(hist) > 1
       THEN styleDisplay(innerHTML(el, <<Node("h3", "History", <<>>),
                                         Node("dl", "", headedItems(hist))>>), "block")
       ELSE styleDisplay(el, "none")

\* the submission branch of functions.show.summary
summarySubmission(el, vars) ==
  IF ~el.present THEN el
  ELSE IF Len(keys(vars)) > 0
       THEN appendChild(innerHTML(styleDisplay(el, "block"),
                                  <<Node("h3", "Submission", <<>>)>>),
                        Node("dl", "", submissionItems(vars, fieldKeys(vars))))
       ELSE styleDisplay(el, "none")

\* functions.show.summary(context, el)
show_summary(sc) ==
  IF ~IsTerminal(sc.rec.active) THEN [sc EXCEPT !.dom.summary = ""]
  ELSE [sc EXCEPT !.dom.summary = "revert",
                  !.dom.history = summaryHistory(@, sc.rec.history),
                  !.dom.submission = summarySubmission(@, sc.rec.vars)]

\* what the styles of the [data-dt-filter] elements depend on
FilterStamp(rec) == [history |-> rec.history, vars |-> rec.vars]

\* legacy _cleanHTML(): the elements inside every .decision-tree__summary_infos
\* are removed, the style of the summary is removed
legacy_cleanHTML(sc) ==
  [sc EXCEPT !.dom.summary = "",
             !.dom.infos = [i \in 1..Len(@) |-> <<>>]]

\* the .step__info content of the steps of history, as styled now
infoHTML(sc) ==
  [i \in 1..Len(sc.rec.history) |->
     [step |-> sc.rec.history[i], stamp |-> sc.dom.stamp]]

\* legacy filter(): every [data-dt-filter] element, in the steps and in the
\* summary, is shown or hidden for the record as it is now
legacy_filter(sc) ==
  [sc EXCEPT !.dom.stamp = FilterStamp(sc.rec),
             !.dom.infos = [i \in 1..Len(@) |->
                              [j \in 1..Len(@[i]) |->
                                 [@[i][j] EXCEPT !.stamp = FilterStamp(sc.rec)]]]]

\* the infos element of the summary is filled, or created, filled and
\* filtered
summaryInfos(sc) ==
  IF sc.dom.infos # <<>>
  THEN [sc EXCEPT !.dom.infos[1] = infoHTML(sc)]
  ELSE legacy_filter([sc EXCEPT !.dom.infos = <<infoHTML(sc)>>])

\* legacy _showHistory(): a dl with the title and a dd per history entry
legacy_showHistory(sc) ==
  IF ~sc.dom.history.present THEN [sc EXCEPT !.raised = TRUE]
  ELSE [sc EXCEPT !.dom.history =
          appendChild(innerHTML(@, <<>>),
                      Node("dl", "", <<Item("dt", "History")>>
                             \o [i \in 1..Len(sc.rec.history) |->
                                   Item("dd", sc.rec.history[i])]))]

\* the dt/dd pairs of the legacy submission list: one pair per variable
\* that has a label
labelledItems(vars, ks) ==
  [i \in 1..(2 * Len(ks)) |->
     IF i % 2 = 1 THEN Item("dt", vars[ks[(i + 1) \div 2] \o "_label"])
     ELSE Item("dd", vars[ks[i \div 2]])]

labelledKeys(vars) ==
  SelectSeq(fieldKeys(vars), LAMBDA k : labelOrKey(vars, k) # k)

\* legacy _showSubmission()
legacy_showSubmission(sc) ==
  IF sc.raised THEN sc
  ELSE IF ~sc.dom.submission.present THEN [sc EXCEPT !.raised = TRUE]
  ELSE [sc EXCEPT !.dom.submission =
          appendChild(innerHTML(@, <<>>),
                      Node("dl", "", labelledItems(sc.rec.vars,
                                                   labelledKeys(sc.rec.vars))))]

\* legacy _showSummary()
legacy_showSummary(sc) ==
  IF IsTerminal(sc.rec.active) \/ sc.rec.active \in SummarySteps
  THEN legacy_showSubmission(legacy_showHistory(
         summaryInfos([legacy_cleanHTML(sc) EXCEPT !.dom.summary = "block"])))
  ELSE legacy_cleanHTML(sc)

\* the variables a record may hold: a labelled field, an unlabelled field
SceneVars ==
  {Spread(a, b) : a \in {NoVars, Collected("age", "20")},
                  b \in {NoVars, Collected("nationality", "japanese")}}

\* the records of a flow whose visitor went down the steps in order
SceneRecords ==
  [active : {StepId(i) : i \in 1..NumSteps},
   history : {SubSeq(PageSteps, 1, n) : n \in 1..NumSteps},
   vars : SceneVars,
   answers : {{}, {StepId(1)}}]

\* a freshly loaded page: the regions authored or not, the infos element
\* authored or not, the filter elements styled for the record or for the
\* record of a first visit
SceneDom(regions, infos, stamp) ==
  [summary |-> "", infos |-> infos, history |-> Region(regions),
   submission |-> Region(regions), stamp |-> stamp]

Scene(engine, rec, dom) ==
  [engine |-> engine, rec |-> rec, dom |-> dom, raised |-> FALSE]

RenderInit ==
  /\ steps = PageSteps
  /\ histShow = FALSE
  /\ page = BoundPage
  /\ Constructed(page, construct(page, PageSteps, FALSE, <<>>))
  /\ phase = "off" /\ depth = 0
  /\ NoFilterRun
  /\ dt = DtFresh
  /\ cmp = NoCompare /\ functions = DefaultFunctions /\ call = NoCall
  /\ \E rec \in SceneRecords, regions \in BOOLEAN :
       \/ flows = Scene("successor", rec,
                        SceneDom(regions, <<>>, FilterStamp(FreshRecord(PageSteps))))
       \/ \E infos \in {<<>>, << <<>> >>} :
            \E stamp \in {FilterStamp(rec), FilterStamp(FreshRecord(PageSteps))} :
              flows = Scene("legacy", rec, SceneDom(regions, infos, stamp))

Rendered(sc) ==
  /\ flows' = sc
  /\ UNCHANGED <<steps, histShow, storageData, store, display, selected, last,
                 phase, depth, fx, fres, dt, cmp, functions, call, page>>

\* the successor engine calls functions.show.summary
ShowSummary ==
  /\ flows.engine = "successor"
  /\ Rendered(show_summary(flows))

\* the successor engine calls functions.show.history on the history region
ShowHistory ==
  /\ flows.engine = "successor"
  /\ Rendered(show_history(flows))

\* the successor engine calls functions.show.submission on the submission
\* region
ShowSubmission ==
  /\ flows.engine = "successor"
  /\ Rendered(show_submission(flows))

\* the legacy engine calls _showSummary()
LegacyShowSummary ==
  /\ flows.engine = "legacy"
  /\ Rendered(legacy_showSummary([flows EXCEPT !.raised = FALSE]))

\* the flow went on: one field of the record the engine holds has changed
RecordChanges(rec) ==
  /\ Cardinality({f \in DOMAIN rec : rec[f] # flows.rec[f]}) = 1
  /\ Rendered([flows EXCEPT !.rec = rec, !.raised = FALSE])

RenderNext ==
  \/ ShowSummary
  \/ ShowHistory
  \/ ShowSubmission
  \/ LegacyShowSummary
  \/ \E rec \in SceneRecords : RecordChanges(rec)

SpecRender == RenderInit /\ [][RenderNext]_allVars

-----------------------------------------------------------------------------
(* Two tabs on one flow: each tab has its own instance (record in memory,  *)
(* DOM, selected answer); the storage key is shared.                       *)

TabIds == {"a", "b"}

\* the instance of a tab after a constructor or a handler ended in w
Tab(w) == [sd |-> w.sd, disp |-> w.disp, sel |-> w.sel]

\* the world a handler of the tab starts in
tabWorld(tabs, st, i) == World(tabs[i].sd, st, tabs[i].disp, tabs[i].sel)

\* the steps the tab displays
tabShown(tab) == {s \in Targets : StepExists(steps, s) /\ Displayed(tab.disp, s)}

TabClickable(i, step) ==
  /\ StepExists(steps, step)
  /\ Displayed(flows.tabs[i].disp, "container")
  /\ Displayed(flows.tabs[i].disp, step)

\* the tabs and the store after a handler of tab i ended in w
tabHandled(i, w) ==
  [tabs |-> [flows.tabs EXCEPT ![i] = Tab(w)], store |-> w.store]

\* both tabs load the page: the second finds the record the first stored
TabsInit ==
  /\ steps = PageSteps
  /\ histShow = FALSE
  /\ page = BoundPage
  /\ Constructed(page, construct(page, PageSteps, FALSE, <<>>))
  /\ phase = "off" /\ depth = 0
  /\ NoFilterRun
  /\ dt = DtFresh
  /\ cmp = NoCompare /\ functions = DefaultFunctions /\ call = NoCall
  /\ flows = [tabs |-> [i \in TabIds |->
                          Tab(construct(page, PageSteps, FALSE,
                                        construct(page, PageSteps, FALSE, <<>>).store))],
              store |-> construct(page, PageSteps, FALSE, <<>>).store]

TabsOnly ==
  UNCHANGED <<steps, histShow, storageData, store, display, selected, last,
              phase, depth, fx, fres, dt, cmp, functions, call, page>>

\* in tab i the visitor clicks the answer of step `from` that links to
\* nextStep
TabAnswerClick(i, from, nextStep) ==
  /\ TabClickable(i, from) /\ ~IsTerminal(from)
  /\ flows' = tabHandled(i, answerClick(steps, histShow,
                                        tabWorld(flows.tabs, flows.store, i),
                                        from, nextStep))
  /\ TabsOnly

\* in tab i the visitor submits the form of step `from`
TabFormSubmit(i, from, field, value, nextStep) ==
  /\ TabClickable(i, from) /\ field \in FormOf(from)
  /\ flows' = tabHandled(i, form(steps, histShow,
                                 tabWorld(flows.tabs, flows.store, i),
                                 field, value, nextStep))
  /\ TabsOnly

\* in tab i the visitor presses Back
TabBack(i) ==
  /\ Displayed(flows.tabs[i].disp, "container")
  /\ Displayed(flows.tabs[i].disp, "footer")
  /\ flows' = tabHandled(i, trackBackButton(steps, tabWorld(flows.tabs, flows.store, i)))
  /\ TabsOnly

\* in tab i the visitor presses Restart
TabRestart(i) ==
  /\ Displayed(flows.tabs[i].disp, "container")
  /\ Displayed(flows.tabs[i].disp, "footer")
  /\ flows' = tabHandled(i, trackRestartButton(steps, tabWorld(flows.tabs, flows.store, i)))
  /\ TabsOnly

TabSteps == {StepId(i) : i \in 1..NumSteps}

\* the answers authored in the page: every step links to the step after it;
\* the form of step-1 has the action step-2
TabLinks == {<<StepId(i), StepId(i + 1)>> : i \in 1..(NumSteps - 1)}

TabsNext ==
  \/ \E i \in TabIds, l \in TabLinks : TabAnswerClick(i, l[1], l[2])
  \/ \E i \in TabIds : \E v \in FieldValues("age") :
       TabFormSubmit(i, StepId(1), "age", v, StepId(2))
  \/ \E i \in TabIds : TabBack(i)
  \/ \E i \in TabIds : TabRestart(i)

SpecTabs == TabsInit /\ [][TabsNext]_allVars




\* the world a legacy handler starts in
DtNow == DtWorld(dt.storage, dt.store, dt.disp)

\* what a visitor can act on in the legacy page
DtClickable(step) ==
  /\ StepExists(dt.steps, step)
  /\ Displayed(dt.disp, "container")
  /\ Displayed(dt.disp, step)

\* the visitor clicks the answer of step `from` that links to nextStep
DtAnswerClick(from, nextStep) ==
  /\ DtClickable(from) /\ ~IsTerminal(from)
  /\ Len(dt.storage.history) < MaxHistory
  /\ dt' = DtHandled(dtTrackAnswer(dt.steps, DtNow, nextStep))
  /\ UNCHANGED <<steps, histShow, storageData, store, display, selected, last,
                 phase, depth, fx, fres, apiVars>>

\* the visitor presses Back
DtBack ==
  /\ Displayed(dt.disp, "container") /\ Displayed(dt.disp, "footer")
  /\ dt' = DtHandled(dtTrackBackButton(dt.steps, DtNow))
  /\ UNCHANGED <<steps, histShow, storageData, store, display, selected, last,
                 phase, depth, fx, fres, apiVars>>

\* the visitor presses Restart
DtRestart ==
  /\ Displayed(dt.disp, "container") /\ Displayed(dt.disp, "footer")
  /\ dt' = DtHandled(dtTrackRestartButton(dt.steps, DtNow))
  /\ UNCHANGED <<steps, histShow, storageData, store, display, selected, last,
                 phase, depth, fx, fres, apiVars>>

\* the page is loaded again, possibly after its markup was edited
DtReload(newSteps) ==
  /\ dt' = DtConstructed(newSteps, dt.store, DtDom(dt.disp["histEl"] # "absent"))
  /\ UNCHANGED <<steps, histShow, storageData, store, display, selected, last,
                 phase, depth, fx, fres, apiVars>>

DtInit ==
  /\ steps = PageSteps
  /\ histShow = FALSE
  /\ Constructed(BoundPage, construct(BoundPage, PageSteps, FALSE, <<>>))
  /\ phase = "off" /\ depth = 0
  /\ NoFilterRun
  /\ \E regions \in BOOLEAN : dt = DtConstructed(PageSteps, <<>>, DtDom(regions))
  /\ ApiIdle

DtNext ==
  \/ \E from \in Targets, t \in Targets : DtAnswerClick(from, t)
  \/ DtBack
  \/ DtRestart
  \/ \E l \in StepLists : DtReload(l)

SpecDT == DtInit /\ [][DtNext]_allVars

-----------------------------------------------------------------------------
(* Properties of the flow *)

\* the steps of the page that are rendered
DisplayedSteps == {s \in Targets : StepExists(steps, s) /\ Displayed(display, s)}

NoDuplicates(hist) ==
  \A i, j \in 1..Len(hist) : hist[i] = hist[j] => i = j

\* a forward handler (answer click or form submission) towards step t runs
ForwardTo(t) ==
  \/ \E from \in Targets : AnswerClick(from, t)
  \/ \E from \in Targets :
       \E f \in FormOf(from) : \E v \in FieldValues(f) : FormSubmit(from, f, v, t)

\* C1: after activation and after every completed answer click, form
\* submission, Back or Restart whose target step is in the page, exactly one
\* step is displayed, and it is the active step
C1_OneStepDisplayed ==
  last.end = "ok" => DisplayedSteps = {storageData.active}

\* a completed forward transition has moved the flow two steps on
C1_Witness ==
  /\ last.end = "ok" /\ phase = "fwd" /\ depth = 2
  /\ DisplayedSteps = {storageData.active}
  /\ storageData.active # steps[1]

\* C2: in every reachable state, also right after construction from a
\* persisted record on a page whose step list has changed, history is not
\* empty and its first entry is the first step of the page
C2_FirstStepHeadsHistory ==
  /\ Len(storageData.history) >= 1
  /\ storageData.history[1] = steps[1]

\* a page whose first two steps were exchanged has loaded the record of a
\* flow begun before
C2_Witness ==
  /\ last.end = "ok"
  /\ steps = SwappedSteps
  /\ storageData.history[1] = SwappedSteps[2]

\* C3: history never holds a step id twice, and a forward transition to a
\* step id that history already holds leaves history as it was
C3_NoDuplicateHistory ==
  /\ [](NoDuplicates(storageData.history))
  /\ [][last'.revisit # "" /\ ForwardTo(last'.revisit)
          => storageData'.history = storageData.history]_allVars

\* a visited step has been chosen again: it is active, but not the last
\* entry of history
C3_Witness ==
  /\ Len(storageData.history) = 3
  /\ storageData.active = storageData.history[2]
  /\ last = [end |-> "ok", revisit |-> storageData.active]

\* C4: after n forward transitions from the first step to new existing
\* steps, n times Back leads to the first step, displayed, and to a history
\* of length 1; on the way history is depth entries longer
C4_BackUndoesForward ==
  phase = "back" =>
    /\ Len(storageData.history) = depth + 1
    /\ depth = 0 =>
         /\ storageData.active = steps[1]
         /\ storageData.history = <<steps[1]>>
         /\ DisplayedSteps = {steps[1]}

\* the last Back of such a run has been pressed, after answers were given
\* at step-1 and at step-2
C4_Witness ==
  /\ phase = "back" /\ depth = 0
  /\ storageData.history = <<steps[1]>>
  /\ storageData.answers = {StepId(1), StepId(2)}

\* the record is the one of a flow at its start, in memory and in the store
C5_Reset(sd, st) ==
  /\ sd.history = <<steps[1]>>
  /\ sd.active = steps[1]
  /\ sd.vars = NoVars
  /\ Len(st) = 1
  /\ Parse(st[1]).history = <<steps[1]>>
  /\ Parse(st[1]).active = steps[1]
  /\ Parse(st[1]).vars = NoVars

\* C5: Restart sets history to [firstStep], active to firstStep and vars to
\* the empty map, in memory and in the stored record: no step that leaves
\* another record is a Restart
C5_RestartResets ==
  [][C5_Reset(storageData', store') \/ ~Restart]_allVars

\* Restart has been pressed after an answer was given: only Restart leaves
\* a recorded answer next to a run that is at its start
C5_Witness ==
  /\ phase = "fwd" /\ depth = 0
  /\ storageData.answers # {}
  /\ storageData.vars = NoVars
  /\ storageData.history = <<steps[1]>>

\* C6: once every step of history is in the page, a new instance
\* constructed on the same storage and the same markup has the same active
\* step, history and vars, and displays the active step
C6_Reconstructed(w) ==
  /\ w.sd.active = storageData.active
  /\ w.sd.history = storageData.history
  /\ w.sd.vars = storageData.vars
  /\ Displayed(w.disp, "container")
  /\ {s \in Targets : StepExists(steps, s) /\ Displayed(w.disp, s)}
       = {storageData.active}

C6_RoundTrip ==
  validHistory(steps, storageData.history)
    => C6_Reconstructed(construct(page, steps, histShow, store))

\* a flow two steps on, with a submitted variable
C6_Witness ==
  /\ last.end = "ok"
  /\ Len(storageData.history) = 3
  /\ validHistory(steps, storageData.history)
  /\ "age" \in DOMAIN storageData.vars

\* C7: when the stored history names a step that is not in the page,
\* construction does not raise, the loaded record has history [firstStep]
\* and active firstStep, and that record is in the store when activation
\* starts; a record whose history entries all exist is loaded unchanged
C7_SelfHealingLoad ==
  dt.found # <<>> =>
    IF dtInvalid(dt.steps, dt.found[1])
    THEN /\ Displayed(dt.disp, "container")
         /\ dt.entered = DtRecord(dt.steps[1], <<dt.steps[1]>>)
         /\ dt.written = <<DtRecord(dt.steps[1], <<dt.steps[1]>>)>>
    ELSE /\ dt.entered = dt.found[1]
         /\ dt.written = dt.found

\* the legacy engine has loaded a record whose history named a missing
\* step: the instance holds the reset record, the store an object that
\* holds it under the key id once more
C7_Witness ==
  /\ dt.found # <<>>
  /\ dtInvalid(dt.steps, dt.found[1])
  /\ dt.entered = DtRecord(dt.steps[1], <<dt.steps[1]>>)
  /\ dt.written = <<DtKeyed(DtRecord(dt.steps[1], <<dt.steps[1]>>))>>

\* C8: the footer is hidden iff history has exactly one entry
C8_FooterIffHistory ==
  ~Displayed(display, "footer") <=> Len(storageData.history) = 1

\* an answer led to a step that is not in the page: history has two entries
\* and the footer is still hidden
C8_Witness ==
  /\ Len(storageData.history) = 2
  /\ ~Displayed(display, "footer")
  /\ last.end = "raised"

\* the criterion holds for the record: it evaluates true, or false under "!"
C9_Holds(c) ==
  (evaluate(storageData.vars, storageData.history, FilterAtoms[c.atom]) = "true")
    # c.neg

\* criteria i and j stand in one alternative: no "," between them
C9_SameAlternative(i, j) ==
  \A k \in 1..Len(fx.seps) : (i <= k /\ k < j) \/ (j <= k /\ k < i) => fx.seps[k] = "+"

\* some alternative has all its conjuncts hold; no filter value passes
C9_Passes ==
  \/ fx.attr # "set"
  \/ \E i \in 1..Len(fx.crits) :
       \A j \in 1..Len(fx.crits) : C9_SameAlternative(i, j) => C9_Holds(fx.crits[j])

C9_Vars(age, nationality) ==
  [x \in {"age", "nationality"} |-> IF x = "age" THEN age ELSE nationality]

\* C9: process returns true iff some comma-separated alternative has all its
\* plus-separated conjuncts true after negation, an element without filter
\* value passes, and the README's combined expression is true for age 19,
\* nationality other and false for age 19, nationality japanese
C9_FilterGrammar ==
  fres # "none" =>
    /\ fres \in {"true", "false"}
    /\ fres = "true" <=> C9_Passes
    /\ fx = ReadmeExpression /\ storageData.vars = C9_Vars("19", "other")
         => fres = "true"
    /\ fx = ReadmeExpression /\ storageData.vars = C9_Vars("19", "japanese")
         => fres = "false"

\* the README's expression was processed for a non-Japanese visitor aged 19,
\* whom only its first alternative admits
C9_Witness ==
  /\ fx = ReadmeExpression
  /\ storageData.vars = C9_Vars("19", "other")
  /\ fres = "true"

\* C10: visited_<stepId> is true iff stepId is in history, and
\* !visited_<stepId> is the opposite
C10_VisitedIffInHistory ==
  /\ (evaluateSigned(storageData.vars, storageData.history,
                     <<"visited", "_", StepId(2)>>) = "true")
       <=> Includes(storageData.history, StepId(2))
  /\ (evaluateSigned(storageData.vars, storageData.history,
                     <<"!", "visited", "_", StepId(2)>>) = "true")
       <=> ~Includes(storageData.history, StepId(2))

\* the visitor is at step-2 and visited_step-2 evaluates false
C10_Witness ==
  /\ storageData.active = StepId(2)
  /\ Includes(storageData.history, StepId(2))
  /\ evaluate(storageData.vars, storageData.history,
              <<"visited", "_", StepId(2)>>) = "false"

\* the operand is a decimal numeral
C11_Numeral(v) == v.k = "str" /\ v.s \in DOMAIN NumeralValue

\* the operand is a string that reads as no number
C11_Word(v) == v.k = "str" /\ v.s \in {"abc", "japanese"}

\* the comparison the token names, on integers
C11_Order(op, a, b) ==
  CASE op = "gt" -> a > b [] op = "gte" -> a >= b [] op = "lt" -> a < b
    [] op = "lte" -> a <= b [] op = "eq" -> a = b

C11_Comparing == cmp.op \in {JStr(x) : x \in {"gt", "gte", "lt", "lte", "eq"}}

C11_Gave(l, op, r, res) ==
  cmp.left = JStr(l) /\ cmp.op = JStr(op) /\ cmp.right = JStr(r) => cmp.res = res

C12_EmptyOperator ==
  cmp.res # "none" /\ cmp.op = JStr("empty") =>
    (cmp.res = "true" <=> cmp.left = JStr(""))

\* a variable submitted as '' was tested with var_<name>_empty, which
\* hands compare no value, and compare returned false
C12_Witness ==
  /\ cmp.left = JStr("") /\ cmp.op = JStr("empty") /\ cmp.right = JUndef
  /\ cmp.res = "false"

\* C13: after a forward handler has completed, and so has run its filter
\* pass, the element carrying data-df-filter is displayed iff its expression
\* evaluates true
C13_DfFilterApplied ==
  last.end = "ok" /\ phase = "fwd" /\ depth >= 1 =>
    (Displayed(display, "f_df")
       <=> processFilters(storageData.vars, storageData.history,
                          FilterEls["f_df"].dfFilter) = "true")

\* a visitor who gave no age went a step forward: the element with
\* data-dt-filter="var_age_gte_18" is hidden, the one with
\* data-df-filter="var_age_gte_18" is still displayed
C13_Witness ==
  /\ last.end = "ok" /\ phase = "fwd" /\ depth >= 1
  /\ "age" \notin DOMAIN storageData.vars
  /\ ~Displayed(display, "f_adult")
  /\ Displayed(display, "f_df")

-----------------------------------------------------------------------------
(* C14 *)

\* what a visitor may type into a field
C14_Values(f) == IF f = "age" THEN {"15", "20"} ELSE {"japanese", "other"}

\* the world w after the form with field f = v and action #t was submitted
\* in the current state
C14_Captured(w, f, v, t) ==
  /\ f \in DOMAIN w.sd.vars /\ w.sd.vars[f] = v
  /\ FieldLabel[f] # ""
       => /\ (f \o "_label") \in DOMAIN w.sd.vars
          /\ w.sd.vars[f \o "_label"] = FieldLabel[f]
  /\ \A x \in DOMAIN storageData.vars \ DOMAIN Collected(f, v) :
       x \in DOMAIN w.sd.vars /\ w.sd.vars[x] = storageData.vars[x]
  /\ DOMAIN w.sd.vars = DOMAIN storageData.vars \cup DOMAIN Collected(f, v)
  /\ w.store # <<>> /\ Parse(w.store[1]).vars = w.sd.vars
  /\ w.sd.active = t
  /\ StepExists(steps, t) => Displayed(w.disp, t) /\ ~w.threw

\* C14: submitting an intercepted form stores each field value under its
\* name and the label text under <name>_label, overwrites same-named prior
\* variables, preserves every other prior variable, persists the result and
\* moves the flow to the step named by the form's action
C14_FormSubmission ==
  \A from \in Targets :
    Clickable(from) /\ page.formClass = "dt-form"
      => \A f \in FormOf(from), t \in Targets :
           \A v \in C14_Values(f) :
             C14_Captured(form(steps, histShow, Now, f, v, t), f, v, t)

\* age = 20 was submitted from step-1 to step-2 after the nationality
C14_Witness ==
  /\ last.end = "ok"
  /\ DOMAIN storageData.vars = {"age", "age_label", "nationality"}
  /\ storageData.vars["age"] = "20"
  /\ storageData.vars["age_label"] = "Age"
  /\ storageData.active = StepId(2)
  /\ store = <<Stringify(storageData)>>

-----------------------------------------------------------------------------
(* C15 *)

\* C15: on a page whose forms carry the class df-form no submission is left
\* to the browser: each one is intercepted by the engine
C15_DfFormIntercepted == page.formClass = "df-form" => last.end # "native"

\* the README page: the form of step-1 was submitted, the browser loaded
\* the page again, and the flow stands on step-1 with no variable captured
C15_Witness ==
  /\ page = [BoundPage EXCEPT !.formClass = "df-form"]
  /\ last.end = "native"
  /\ storageData = FreshRecord(PageSteps)
  /\ Displayed(display, StepId(1))

-----------------------------------------------------------------------------
(* C16 *)

\* a handler of the engine serves a click or a submission
C16_Handled ==
  \/ \E from \in Targets, to \in Targets : AnswerClick(from, to)
  \/ \E from \in Targets, to \in Targets :
       \E f \in FormOf(from) : \E v \in FieldValues(f) : FormSubmit(from, f, v, to)
  \/ Back
  \/ Restart

\* C16: when the storage probe fails the constructor returns with the page
\* as authored: no record is loaded or written, no footer, summary or class
\* is added, nothing is hidden, and no handler answers the visitor
C16_InertWithoutStorage ==
  ~isStorageAvailable(page)
    => /\ last.end = "inert"
       /\ display = FreshDisplay(page)
       /\ storageData = NoRecord
       /\ store = <<>>
       /\ selected = <<>>
       /\ ~ENABLED C16_Handled

\* a page without footer whose storage refuses setItem, after construction
C16_Witness ==
  /\ page.storage = "blocked" /\ page.footer = "none"
  /\ last.end = "inert"
  /\ display["footer"] = "absent" /\ display["dt-initialized"] = "absent"
  /\ \A i \in 1..NumSteps : Displayed(display, StepId(i))

-----------------------------------------------------------------------------
(* C17 *)

\* what makes activate raise: the footer has no buttons to wire, or the
\* analytics call fails
C17_Faulty(pg) == pg.footer = "bare" \/ report(pg.analytics) = "raised"

\* C17: a raise inside activate does not leave the constructor; it is
\* caught and the container is hidden
C17_ActivationCaught ==
  /\ last.end # "escaped"
  /\ isStorageAvailable(page) /\ C17_Faulty(page)
       => last.end = "failed" /\ ~Displayed(display, "container")

\* a page whose footer has no buttons: activate raised when wiring them,
\* after the footer was toggled and the active step shown
C17_Witness ==
  /\ page = [BoundPage EXCEPT !.footer = "bare"]
  /\ last.end = "failed"
  /\ ~Displayed(display, "container")
  /\ display[StepId(1)] = "revert" /\ display["footer"] = "none"
  /\ display["dt-initialized"] = "absent"
  /\ store = <<>>

-----------------------------------------------------------------------------
(* C18 *)

\* C18: no raise leaves a navigation handler: an answer click, Back or
\* Restart on the legacy page runs to its end
C18_FailClosed == ~dt.raised

\* a legacy page without history region: the click that leads to the
\* terminal step toggled the steps, saved the record and showed the summary,
\* then raised in _showHistory before the footer was refreshed
C18_Witness ==
  /\ dt.raised
  /\ dt.disp["histEl"] = "absent"
  /\ dt.storage.kind = "record"
  /\ validHistory(dt.steps, dt.storage.history)
  /\ dt.storage.active = StepId(NumSteps)
  /\ Len(dt.storage.history) > 1
  /\ dt.store = <<dt.storage>>
  /\ Displayed(dt.disp, StepId(NumSteps)) /\ Displayed(dt.disp, "summary")
  /\ ~Displayed(dt.disp, "footer")

-----------------------------------------------------------------------------
(* C19 *)

\* C19: defineFunction with a function and a name the pattern rejects
\* raises and leaves the registry as it was; with a name the pattern
\* accepts it stores the function under (type, name)
C19_NameValidation ==
  [][call'.op = "define" /\ call'.fn = "host"
       => IF validName(call'.name)
          THEN /\ call'.end = "stored"
               /\ <<call'.type, call'.name>> \in DOMAIN functions'
               /\ functions'[<<call'.type, call'.name>>] = "host"
          ELSE /\ call'.end = "raised"
               /\ functions' = functions]_allVars

\* defineFunction('show', '1bad-name', fn) has stored fn
C19_Witness ==
  /\ call = [op |-> "define", type |-> "show", name |-> "1bad-name", fn |-> "host",
             end |-> "stored"]
  /\ ~validName("1bad-name") /\ validName("valid_name$")
  /\ <<"show", "1bad-name">> \in DOMAIN functions
  /\ functions[<<"show", "1bad-name">>] = "host"

-----------------------------------------------------------------------------
(* C20 *)

-----------------------------------------------------------------------------
(* C25 *)

\* the history of the stored record
C25_Stored(st) == IF st = <<>> THEN <<>> ELSE Parse(st[1]).history

\* the world w after a forward handler left the flow where it is now
C25_Aborted(w) ==
  /\ w.sd.history = storageData.history
  /\ w.sd.active = storageData.active
  /\ C25_Stored(w.store) = C25_Stored(store)
  /\ {s \in Targets : StepExists(steps, s) /\ Displayed(w.disp, s)} = DisplayedSteps

\* C25: an answer click or form submission whose target is no step of the
\* page is aborted: history, the active step, the stored history and the
\* displayed step stay as they are
C25_MissingTargetAborted ==
  \A from \in Targets, t \in Targets :
    Clickable(from) /\ ~StepExists(steps, t)
      => /\ ~IsTerminal(from)
            => C25_Aborted(answerClick(steps, histShow, Now, from, t))
         /\ \A f \in FormOf(from) : \A v \in FieldValues(f) :
              C25_Aborted(form(steps, histShow, Now, f, v, t))

\* an answer of step-1 led to an id that is no step: the id is active and
\* in the history, in memory and in storage, and no step is displayed
C25_Witness ==
  /\ steps = PageSteps
  /\ last.end = "void"
  /\ storageData.active = Gone
  /\ storageData.history = <<StepId(1), Gone>>
  /\ C25_Stored(store) = <<StepId(1), Gone>>
  /\ DisplayedSteps = {}

-----------------------------------------------------------------------------
(* C26 *)

\* C26: the active step is the last entry of history
C26_ActiveIsLastOfHistory ==
  /\ Len(storageData.history) >= 1
  /\ storageData.active = storageData.history[Len(storageData.history)]

\* from step-2 the visitor chose an answer that leads back to step-1:
\* step-1 is active and displayed, the last entry of history is step-2
C26_Witness ==
  /\ steps = PageSteps
  /\ last = [end |-> "ok", revisit |-> StepId(1)]
  /\ storageData.history = <<StepId(1), StepId(2)>>
  /\ storageData.active = StepId(1)
  /\ DisplayedSteps = {StepId(1)}
  /\ phase = "off"

-----------------------------------------------------------------------------
(* C27 *)

\* C27: when activation or a handler has returned, the stored record is
\* the in-memory record
C27_SavedOnReturn ==
  last.end \in {"ok", "void", "failed", "native"}
    => store = <<Stringify(storageData)>>

\* a first visit on which activate raised and hid the container: the
\* record _loadStorage created is in memory, the storage holds nothing
C27_Witness ==
  /\ last.end = "failed"
  /\ isStorageAvailable(page)
  /\ storageData = FreshRecord(PageSteps)
  /\ store = <<>>

-----------------------------------------------------------------------------
(* C24 *)

\* a report that sends through a mechanism that is there and configured,
\* and is skipped otherwise
C24_Expected(env) ==
  IF env.gtag /\ env.settings = "configured" THEN "gtag"
  ELSE IF env.ga = "tracker" THEN "ga"
  ELSE "skipped"

\* C24: whatever analytics globals the page has, a page-view report sends
\* through a configured mechanism or is skipped; it does not raise, and the
\* activation it is part of runs to its end
C24_AnalyticsNeverFatal ==
  /\ report(page.analytics) = C24_Expected(page.analytics)
  /\ last.end \notin {"failed", "escaped"}

\* gtag is a function and drupalSettings is not declared: the report of
\* activate raised, no step was hidden, the container is hidden and nothing
\* was saved
C24_Witness ==
  /\ page.analytics = GtagAlone
  /\ report(page.analytics) = "raised"
  /\ last.end = "failed"
  /\ ~Displayed(display, "container")
  /\ \A i \in 1..NumSteps : Displayed(display, StepId(i))
  /\ store = <<>>

-----------------------------------------------------------------------------
(* C30 *)

\* the step has no answer content or is flagged as a summary step
C30_SummaryStep(step) ==
  ~StepExists(steps, step) \/ IsTerminal(step) \/ step \in SummarySteps

\* the world w after activation or a forward handler that did not raise:
\* the summary is revealed iff its active step is a summary step
C30_Revealed(w) ==
  ~w.threw /\ Displayed(w.disp, "container")
    => (w.disp["summary"] = "revert" <=> C30_SummaryStep(w.sd.active))

\* C30: activation and every forward handler reveal the summary iff the
\* active step has no answer content or carries data-show-summary; Back and
\* Restart clear the reveal
C30_SummaryRegion ==
  /\ C30_Revealed(construct(page, steps, histShow, store))
  /\ \A from \in Targets, t \in Targets :
       Clickable(from)
         => /\ ~IsTerminal(from)
               => C30_Revealed(answerClick(steps, histShow, Now, from, t))
            /\ \A f \in FormOf(from) : \A v \in FieldValues(f) :
                 C30_Revealed(form(steps, histShow, Now, f, v, t))
  /\ Len(storageData.history) > 1
       => trackBackButton(steps, Now).disp["summary"] # "revert"
  /\ trackRestartButton(steps, Now).disp["summary"] # "revert"

\* the visitor went from step-1 to step-2, which has answers and carries
\* data-show-summary: the summary is not revealed
C30_Witness ==
  /\ steps = PageSteps
  /\ last.end = "ok"
  /\ storageData.history = <<StepId(1), StepId(2)>>
  /\ storageData.active = StepId(2)
  /\ StepId(2) \in SummarySteps /\ ~IsTerminal(StepId(2))
  /\ DisplayedSteps = {StepId(2)}
  /\ display["summary"] # "revert"

-----------------------------------------------------------------------------
(* C28 *)

\* C28: on a page with a [data-df-show="history"] element, after a
\* completed transition the element displays its list only if history has
\* more than one entry
C28_HistoryRegion ==
  histShow /\ last.end = "ok"
    => (display["histEl"] = "block" => Len(storageData.history) > 1)

\* the visitor went one step on and pressed Back: history is [step-1] and
\* the element still displays the list made for two steps
C28_Witness ==
  /\ histShow
  /\ last.end = "ok" /\ phase = "back" /\ depth = 0
  /\ storageData.history = <<StepId(1)>>
  /\ DisplayedSteps = {StepId(1)}
  /\ display["histEl"] = "block"

-----------------------------------------------------------------------------
(* C29 *)

\* C29: after a Restart no element bound to a show hook displays what was
\* rendered from the history the Restart has wiped
C29_RestartClearsRecap ==
  [][display'["histEl"] # "block" \/ ~Restart]_allVars

\* after a Restart history is [step-1] and vars is empty, and the history
\* element displays the list of the steps visited before
C29_Witness ==
  /\ histShow
  /\ last.end = "ok" /\ phase = "fwd" /\ depth = 0
  /\ storageData.history = <<steps[1]>>
  /\ storageData.vars = NoVars
  /\ display["histEl"] = "block"


\* C21: after the host replaced a built-in hook by defineFunction, every
\* use of that hook by a click, a submission, Back or Restart calls the
\* entry the registry holds now and never the replaced built-in: a forward
\* step that completes calls the registered summary entry, calls the
\* registered history entry when the page has a history element, and under
\* a replaced summary entry leaves the summary region as it was
C21_Handled ==
  {answerClick(steps, histShow, Now, f, t) : f \in {x \in Targets : Clickable(x)}, t \in Targets}
    \cup {trackBackButton(steps, Now), trackRestartButton(steps, Now)}

C21_Forward ==
  {answerClick(steps, histShow, Now, f, t) : f \in {x \in Targets : Clickable(x)}, t \in Targets}

C21_Registered(w) == \A u \in w.ran : u[3] = functions[<<u[1], u[2]>>]

C21_Called(w, type, name) == <<type, name, functions[<<type, name>>]>> \in w.ran

C22_With(w, texts) ==
  [w EXCEPT !.sd.functions = texts, !.store = withFunctions(@, texts)]

C22_InMemory(w) ==
  \A u \in w.ran : <<u[1], u[2]>> \in DOMAIN functions /\ u[3] = functions[<<u[1], u[2]>>]

C22_SameRun(a, b) ==
  /\ C22_InMemory(a) /\ C22_InMemory(b)
  /\ C22_With(a, {}) = C22_With(b, {})

C23_Isolation ==
  [][\A id \in FlowSet :
       flows'.last.id = id =>
         \A other \in FlowSet \ {id} :
           /\ flows'.storage[Namespace(other)] = flows.storage[Namespace(other)]
           /\ flows'.inst[other] = flows.inst[other]]_allVars

C23_Witness ==
  /\ flows.last = [op |-> "construct", id |-> "flow-b"]
  /\ flows.inst["flow-a"].built
  /\ flows.inst["flow-a"].sd.active = StepId(NumSteps)
  /\ flows.inst["flow-a"].fns = DefaultFunctions
  /\ Len(flows.inst["flow-a"].sd.history) > 1
  /\ Len(flows.inst["flow-b"].sd.history) = 1
  /\ flows.inst["flow-a"].region = "none"
  /\ flows.inst["flow-b"].region = "none"

\* C39: evaluating a filter expression ends with a boolean for every
\* criterion name an author can write, the names of the built-in filter
\* entries compare, evaluate and process included, and a criterion whose
\* name is neither registered nor var nor visited is false
C39_Unregistered(text) ==
  Head(text) \notin {"compare", "evaluate", "process", "var", "visited"}

C39_EvaluationTotal ==
  fres # "none" =>
    /\ fres \in {"true", "false"}
    /\ C39_Unregistered(fx.text) => fres = (IF fx.neg THEN "true" ELSE "false")

C39_Witness ==
  /\ fx = [neg |-> FALSE, text |-> <<"process", "_", "x">>]
  /\ fres = "throw"

\* C32: with the built-in hooks the display of every filterable element
\* after a filter pass is decided by the current vars and history alone,
\* whatever the elements' display was before the pass, and a second pass
\* changes nothing
C32_Before(w, d) ==
  [w EXCEPT !.disp = [e \in DOMAIN w.disp |-> IF e \in DOMAIN d THEN d[e] ELSE w.disp[e]]]

C32_Pass(w) ==
  filterFrom(w, Filterable([FilterEls EXCEPT !["f_visited"] = Criterion(fx)], FilterOrder))

C32_Shown(w) == [e \in {"f_visited", "f_notvisited", "f_adult"} |-> w.disp[e]]

C32_Memoryless ==
  \A d \in [{"f_visited", "f_notvisited", "f_adult"} -> {"none", "revert"}] :
    /\ C32_Shown(C32_Pass(C32_Before(Now, d))) = C32_Shown(C32_Pass(Now))
    /\ C32_Shown(C32_Pass(C32_Pass(C32_Before(Now, d)))) = C32_Shown(C32_Pass(C32_Before(Now, d)))

C32_Witness ==
  /\ fx.text = <<"process", "_", "x">>
  /\ fres = "throw"
  /\ C32_Pass(Now).threw
  /\ C32_Pass(C32_Before(Now, [e \in {"f_adult"} |-> "none"])).disp["f_adult"] = "none"
  /\ C32_Pass(C32_Before(Now, [e \in {"f_adult"} |-> "revert"])).disp["f_adult"] = "revert"

\* C40: the storage probe leaves the backing store as it found it: every
\* key present before the probe, a host page's key 'test' included, holds
\* the same value afterwards, and no new key remains
C40_ProbeLeavesStore ==
  flows.last.op = "probe" => flows.storage = flows.before

C40_Witness ==
  /\ flows.last.op = "probe"
  /\ page.storage = "ok"
  /\ flows.before["test"] = <<"host">>
  /\ flows.storage["test"] = <<>>
  /\ \A id \in FlowSet : flows.storage[Namespace(id)] = flows.before[Namespace(id)]

\* C34: a forward, Back or Restart transition that makes a step carrying
\* data-cookie="name=value" the active step sets one cookie, after the
\* record was stored, whose name is the text before the first '=' and
\* whose value is the whole text after the first '=', expiring in 7 days;
\* making a step without the attribute active sets no cookie
C34_Name(text) == Cat(SubSeq(text, 1, FirstAt(text, "=") - 1))

C34_Value(text) == Cat(SubSeq(text, FirstAt(text, "=") + 1, Len(text)))

C34_Issued(w) ==
  IF w.sd.active \in DOMAIN DataCookie /\ StepExists(steps, w.sd.active)
  THEN w.jar = <<[name |-> C34_Name(DataCookie[w.sd.active]),
                  value |-> C34_Value(DataCookie[w.sd.active]),
                  days |-> 7, saved |-> TRUE]>>
  ELSE w.jar = <<>>

C34_Transitions ==
  {answerClick(steps, histShow, Now, f, t) : f \in {x \in Targets : Clickable(x)}, t \in Targets}
    \cup {trackBackButton(steps, Now) : x \in {y \in {1} : Len(storageData.history) > 1}}
    \cup {trackRestartButton(steps, Now)}

C34_OutcomeCookie ==
  last.end # "inert" => \A w \in C34_Transitions : ~w.threw => C34_Issued(w)

C34_Witness ==
  /\ Clickable(StepId(1))
  /\ answerClick(steps, histShow, Now, StepId(1), StepId(2)).jar
       = <<[name |-> "outcome", value |-> "a", days |-> 7, saved |-> TRUE]>>

\* C37: after Restart the record, in memory and in the store, is the record
\* a first attach creates (active and history at the first step, no vars,
\* nothing else collected before), and the history list rendered after the
\* next answer shows no answer text recorded before the Restart
C37_Pressable ==
  /\ last.end # "inert"
  /\ Displayed(display, "container") /\ Displayed(display, "footer")

C37_Fresh(w) ==
  /\ w.sd = FreshRecord(steps)
  /\ w.store = <<Stringify(FreshRecord(steps))>>

C37_OwnAnswers(w) ==
  \A i \in 1..Len(w.sd.history) :
    historyList(w)[i].dd => historyList(w)[i].dt = steps[1]

C37_RestartForgets ==
  C37_Pressable =>
    /\ C37_Fresh(trackRestartButton(steps, Now))
    /\ \A t \in Targets :
         C37_OwnAnswers(answerClick(steps, histShow,
                                    trackRestartButton(steps, Now), steps[1], t))

\* Restart is pressed at step-2 after answers at step-1 and step-2 (and a
\* Back); the answer of step-2 is in the record Restart leaves and in the
\* history list once step-2 is reached again
C37_Witness ==
  /\ C37_Pressable
  /\ storageData.answers = {StepId(1), StepId(2)}
  /\ trackRestartButton(steps, Now).sd.answers = {StepId(1), StepId(2)}
  /\ historyList(answerClick(steps, histShow, trackRestartButton(steps, Now),
                             steps[1], StepId(2)))[2]
       = [dt |-> StepId(2), dd |-> TRUE]

\* C36: when the visitor went from a displayed step to another step of the
\* page and history has more than one entry, Back displays the step that
\* was displayed before, so Back changes which step is displayed, also
\* when the answer link led to a step already in history
C36_Shown(w) == {s \in Targets : StepExists(steps, s) /\ Displayed(w.disp, s)}

C36_Returns(w, from) ==
  (~w.threw /\ Len(w.sd.history) > 1) =>
    /\ C36_Shown(trackBackButton(steps, w)) = {from}
    /\ C36_Shown(trackBackButton(steps, w)) # C36_Shown(w)

C36_BackReturns ==
  \A from \in {x \in Targets : Clickable(x) /\ DisplayedSteps = {x}} :
    \A t \in {x \in Targets : StepExists(steps, x) /\ x # from} :
      C36_Returns(answerClick(steps, histShow, Now, from, t), from)

\* at step-2, reached from step-1, the answer link to step-1 is followed:
\* step-1 is displayed, and after Back step-1 is displayed still
C36_Witness ==
  /\ Clickable(StepId(2)) /\ DisplayedSteps = {StepId(2)}
  /\ storageData.history = <<StepId(1), StepId(2)>>
  /\ C36_Shown(answerClick(steps, histShow, Now, StepId(2), StepId(1))) = {StepId(1)}
  /\ C36_Shown(trackBackButton(steps,
                 answerClick(steps, histShow, Now, StepId(2), StepId(1)))) = {StepId(1)}

\* C35: in the legacy engine a forward transition (answer or form) appends
\* its target to history whether or not history holds it already, the
\* active step is the last history entry, and Back after a forward
\* transition displays the step displayed before it and restores the record
C35_Shown(w) == {s \in Targets : StepExists(dt.steps, s) /\ Displayed(w.disp, s)}

C35_Forward(w, nextStep) ==
  /\ w.storage.active = nextStep
  /\ w.storage.history = Append(dt.storage.history, nextStep)
  /\ C35_Shown(w) = {s \in {nextStep} : StepExists(dt.steps, s)}

C35_Retraced(w, from) ==
  /\ C35_Shown(w) = {from}
  /\ w.storage = dt.storage
  /\ w.store = <<dt.storage>>

C35_Step(from, nextStep) ==
  /\ C35_Forward(dtTrackAnswer(dt.steps, DtNow, nextStep), nextStep)
  /\ C35_Forward(dtHandleFormSubmit(dt.steps, DtNow, nextStep), nextStep)
  /\ C35_Retraced(dtTrackBackButton(dt.steps,
        [dtTrackAnswer(dt.steps, DtNow, nextStep) EXCEPT !.threw = FALSE]), from)

C35_HistoryIsPath ==
  dt.storage.kind = "record" =>
    /\ Len(dt.storage.history) >= 1
    /\ dt.storage.active = dt.storage.history[Len(dt.storage.history)]
    /\ \A from \in {x \in Targets : DtClickable(x) /\ C35_Shown(DtNow) = {x}} :
         \A t \in Targets : C35_Step(from, t)

\* the visitor went step-1, step-2, step-1: history holds step-1 twice,
\* and Back from here displays step-2
C35_Witness ==
  /\ dt.storage.kind = "record"
  /\ dt.storage.history = <<StepId(1), StepId(2), StepId(1)>>
  /\ DtClickable(StepId(1)) /\ C35_Shown(DtNow) = {StepId(1)}
  /\ C35_Shown(dtTrackBackButton(dt.steps, DtNow)) = {StepId(2)}
  /\ dtTrackAnswer(dt.steps, DtNow, StepId(1)).storage.history
       = <<StepId(1), StepId(2), StepId(1), StepId(1)>>

\* C31: in both engines, calling a renderer again with the record unchanged
\* leaves the content and the visibility of the summary, the history region
\* and the submission region as the first call left them, and no region
\* holds more nodes than one rendering puts there
C31_Once(sc) ==
  /\ Len(sc.dom.infos) <= 1
  /\ Len(sc.dom.history.children) <= 2
  /\ Len(sc.dom.submission.children) <= 2
  /\ \A i \in 1..Len(sc.dom.infos) : Len(sc.dom.infos[i]) <= Len(sc.rec.history)

C31_Same(once, twice) == twice = once /\ C31_Once(once)

C31_SummaryIdempotent ==
  IF flows.engine = "successor"
  THEN /\ C31_Same(show_summary(flows), show_summary(show_summary(flows)))
       /\ C31_Same(show_history(flows), show_history(show_history(flows)))
       /\ C31_Same(show_submission(flows), show_submission(show_submission(flows)))
  ELSE C31_Same(legacy_showSummary(flows), legacy_showSummary(legacy_showSummary(flows)))

\* the summary of the last step was rendered over content rendered for an
\* earlier record: the history region holds the title and the list
C31_Witness ==
  /\ flows.dom.summary # ""
  /\ IsTerminal(flows.rec.active) /\ Len(flows.rec.history) = NumSteps
  /\ flows.rec.vars # NoVars
  /\ Len(flows.dom.submission.children) >= 1
  /\ Len(flows.dom.history.children) >= 1
  /\ flows.engine = "legacy" => flows.dom.infos = <<infoHTML(flows)>>

\* C33: the submission list of the successor engine holds one label/value
\* entry for exactly the captured variables that have a stored <name>_label,
\* none for a variable without a label, and the region is hidden when no
\* labelled variable exists
C33_Expected(region, vars) ==
  IF labelledKeys(vars) = <<>> THEN region.display = "none"
  ELSE /\ region.display = "block"
       /\ region.children
            = <<Node("h3", "Submission", <<>>),
                Node("dl", "", labelledItems(vars, labelledKeys(vars)))>>

C33_LabelledOnly ==
  (flows.engine = "successor" /\ flows.dom.submission.present) =>
    C33_Expected(show_submission(flows).dom.submission, flows.rec.vars)

\* the submission region was rendered for a record that holds the
\* unlabelled nationality only: it is displayed and lists nationality
C33_Witness ==
  /\ flows.engine = "successor"
  /\ DOMAIN flows.rec.vars = {"nationality"}
  /\ flows.dom.submission.display = "block"
  /\ flows.dom.submission.children[2].items
       = <<Item("dt", "nationality"), Item("dd", "Japanese")>>

\* C38: with two tabs on one storage key, each tab displays exactly one
\* step, its own active step, and a forward event of a tab leaves that
\* tab's history as it was in that tab or appends the event's target to it:
\* nothing the other tab wrote enters the tab's record before a reload
C38_OwnHistory(before, w, nextStep) ==
  w.sd.history \in {before, Append(before, nextStep)}

C38_OwnEvents(i) ==
  /\ \A l \in {x \in TabLinks : TabClickable(i, x[1])} :
       C38_OwnHistory(flows.tabs[i].sd.history,
                      answerClick(steps, histShow, tabWorld(flows.tabs, flows.store, i),
                                  l[1], l[2]), l[2])
  /\ TabClickable(i, StepId(1)) =>
       \A v \in FieldValues("age") :
         C38_OwnHistory(flows.tabs[i].sd.history,
                        form(steps, histShow, tabWorld(flows.tabs, flows.store, i),
                             "age", v, StepId(2)), StepId(2))

C38_TabsIndependent ==
  \A i \in TabIds :
    /\ tabShown(flows.tabs[i]) = {flows.tabs[i].sd.active}
    /\ C38_OwnEvents(i)

\* tab b went on to step-2 and step-3 while tab a stayed at step-1; then
\* the form of step-1 was submitted in tab a towards step-2: tab a holds
\* the history tab b wrote and displays step-1 and step-2
C38_Witness ==
  /\ flows.tabs["b"].sd.history = <<StepId(1), StepId(2), StepId(3)>>
  /\ flows.tabs["a"].sd.history = <<StepId(1), StepId(2), StepId(3)>>
  /\ flows.tabs["a"].sd.active = StepId(2)
  /\ "age" \in DOMAIN flows.tabs["a"].sd.vars
  /\ tabShown(flows.tabs["a"]) = {StepId(1), StepId(2)}
====
